---- MODULE Spec2Model ----
(***************************************************************************)
(* Model of the multi-person profile store (store_org.py) and of the       *)
(* performance ledger (performance_models.py).                             *)
(*                                                                         *)
(* Conventions.  A Python str is a tuple of characters, <<"1","-","3">>;   *)
(* the two Chinese literals the code compares against are spelt with one   *)
(* syllable per character.  A Python value that can sit in a profile is a  *)
(* tagged record [t, v].  Dictionary keys, ids, sources and event types    *)
(* are opaque TLA+ strings; None in such a slot is the string None.        *)
(***************************************************************************)
EXTENDS Integers, Sequences, FiniteSets, TLC

VARIABLES
    file,       \* the persisted document (user_profiles_multi.json)
    uuids,      \* how many uuid4() values have been drawn so far
    now,        \* the wall clock read by _get_timestamp() / _now()
    ret,        \* the value the last store operation returned to its caller
    returned,   \* normalized phone -> person id last returned by upsert_person
    nUpserts,   \* person id -> number of upsert_person calls that returned it
    writers,    \* per concurrent writer: position, loaded document, result
    perf,       \* the ledger handed to the pure ledger functions
    result      \* what the last pure ledger function returned

vars == <<file, uuids, now, ret, returned, nUpserts, writers, perf, result>>

----------------------------------------------------------------------------
(* Bounds of the model *)

MaxUuids == 2       \* uuid4() draws in a run of Spec
MaxSources == 2     \* entries of one Person's sources list
MaxEvents == 1      \* events of one Person's ledger in the store
MaxGroups == 1      \* groups in the store in a run of Spec
MaxLedger == 3      \* events of a ledger handed to the pure functions
MantBits == 3       \* significant bits of a float

----------------------------------------------------------------------------
(* Python values *)

None == "None"

Str(s) == [t |-> "str", v |-> s]
PyInt(digits) == [t |-> "int", v |-> digits]
PyNone == [t |-> "none", v |-> <<>>]
Dict(f) == [t |-> "dict", v |-> f]

EmptyDict == <<>>

\* Documents and ledgers: a JSON object is the record of its keys, any other
\* JSON value in such a place is tagged (a list as List(items)).
\* isinstance(x, dict)
IsMapping(x) == "t" \notin DOMAIN x
List(items) == [t |-> "list", v |-> items]

\* bool(x): "", 0, None and {} are falsy
Truthy(x) ==
    CASE x.t = "str" -> x.v # <<>>
      [] x.t = "int" -> x.v # <<"0">>
      [] x.t = "none" -> FALSE
      [] x.t = "dict" -> DOMAIN x.v # {}

\* bool(x) for an id slot (Optional[str])
IdTruthy(x) == x # None /\ x # ""

\* str(x); the repr of a mapping is abbreviated
PyStr(x) ==
    CASE x.t = "str" -> x.v
      [] x.t = "int" -> x.v
      [] x.t = "none" -> <<"N", "o", "n", "e">>
      [] x.t = "dict" -> <<"{", "}">>

\* d.get(k, default)
Get(d, k, default) == IF k \in DOMAIN d THEN d[k] ELSE default

\* d.update(e) / d[k] = v for every k of e
Update(d, e) == [k \in DOMAIN d \cup DOMAIN e |-> IF k \in DOMAIN e THEN e[k] ELSE d[k]]

\* index of the first element passing Test, 0 when there is none
FirstIndex(seq, Test(_)) ==
    IF \E i \in DOMAIN seq : Test(seq[i])
    THEN CHOOSE i \in DOMAIN seq : Test(seq[i]) /\ \A j \in 1..(i - 1) : ~Test(seq[j])
    ELSE 0

\* [x for x in seq if Test(x)]
Filter(seq, Test(_)) == SelectSeq(seq, Test)

NotMentioned == <<"wei", "ti", "ji">>        \* the literal "not provided"
UnknownName == <<"wei", "zhi">>              \* the literal "unknown"
MemberPrefix == <<"cheng", "yuan", "_">>     \* the literal "member_"

Whitespace == {" "}
PhoneNoise == Whitespace \cup {"-", "(", ")"}

RECURSIVE LStrip(_)
LStrip(s) == IF s # <<>> /\ Head(s) \in Whitespace THEN LStrip(Tail(s)) ELSE s

RECURSIVE RStrip(_)
RStrip(s) ==
    IF s # <<>> /\ s[Len(s)] \in Whitespace THEN RStrip(SubSeq(s, 1, Len(s) - 1)) ELSE s

\* s.strip()
Strip(s) == RStrip(LStrip(s))

LowerChar(c) ==
    CASE c = "A" -> "a"
      [] c = "B" -> "b"
      [] OTHER -> c

\* s.lower()
Lower(s) == [i \in DOMAIN s |-> LowerChar(s[i])]

----------------------------------------------------------------------------
(* Identity normalizer *)

_normalize_phone(phone) ==
    IF ~Truthy(phone) \/ phone = Str(NotMentioned)
    THEN <<>>
    ELSE SelectSeq(Strip(PyStr(phone)), LAMBDA c : c \notin PhoneNoise)

_normalize_email(email) ==
    IF ~Truthy(email) \/ email = Str(NotMentioned)
    THEN <<>>
    ELSE Lower(Strip(PyStr(email)))

PhonePrefix == <<"p", "h", "o", "n", "e", ":">>
EmailPrefix == <<"e", "m", "a", "i", "l", ":">>

_compute_dedup_key_email_first(phone, email) ==
    LET norm_phone == _normalize_phone(phone)
        norm_email == _normalize_email(email)
    IN  [strategy |-> "phone_then_email",
         key |-> IF norm_email # <<>> THEN EmailPrefix \o norm_email
                 ELSE IF norm_phone # <<>> THEN PhonePrefix \o norm_phone
                 ELSE <<>>]

_compute_dedup_key_phone_always(phone, email) ==
    [strategy |-> "phone_then_email", key |-> PhonePrefix \o _normalize_phone(phone)]

\* _compute_dedup_key(phone, email)
_compute_dedup_key(phone, email) ==
    LET norm_phone == _normalize_phone(phone)
        norm_email == _normalize_email(email)
    IN  [strategy |-> "phone_then_email",
         key |-> IF norm_phone # <<>> THEN PhonePrefix \o norm_phone
                 ELSE IF norm_email # <<>> THEN EmailPrefix \o norm_email
                 ELSE <<>>]

\* profile keys: dianhua = phone, lianxidianhua = contact phone, shouji =
\* mobile, youxiang = email, lianxiyouxiang = contact email, lianxifangshi =
\* the nested contact object, xingming = name
phone_keys == <<"dianhua", "lianxidianhua", "shouji", "phone", "tel", "mobile">>
email_keys == <<"youxiang", "lianxiyouxiang", "email", "e-mail">>

\* the value of the first key of keys that is present and truthy, as str()
FirstAlias(d, keys, default) ==
    LET i == FirstIndex(keys, LAMBDA k : k \in DOMAIN d /\ Truthy(d[k]))
    IN  IF i = 0 THEN default ELSE Str(PyStr(d[keys[i]]))

\* returns <<phone, email>>
_extract_contact_from_profile(profile_data) ==
    IF profile_data.t # "dict"
    THEN <<Str(<<>>), Str(<<>>)>>
    ELSE LET d == profile_data.v
             phone1 == FirstAlias(d, phone_keys, Str(<<>>))
             contact == Get(d, "lianxifangshi", Dict(EmptyDict))
             phone2 == IF contact.t = "dict" /\ ~Truthy(phone1)
                       THEN Get(contact.v, "dianhua", Str(<<>>))
                       ELSE phone1
             email1 == IF contact.t = "dict"
                       THEN Get(contact.v, "youxiang", Str(<<>>))
                       ELSE Str(<<>>)
         IN  <<phone2, FirstAlias(d, email_keys, email1)>>

\* the normalized phone of a profile
PhoneOf(profile_data) == _normalize_phone(_extract_contact_from_profile(profile_data)[1])

\* the dedup key upsert_person computes for a profile
KeyOf(profile_data) ==
    LET c == _extract_contact_from_profile(profile_data)
    IN  _compute_dedup_key(c[1], c[2]).key

----------------------------------------------------------------------------
(* Binary floating point, scaled down to MantBits significant bits.  A      *)
(* float is the integer it denotes in units of the smallest step; the sum   *)
(* of two floats is rounded to the nearest representable value, ties to     *)
(* even, as IEEE 754 addition does with 53 bits.                            *)

RECURSIVE Pow2(_)
Pow2(n) == IF n = 0 THEN 1 ELSE 2 * Pow2(n - 1)

Abs(x) == IF x < 0 THEN 0 - x ELSE x

\* the least e >= from with a < 2^(MantBits + e)
RECURSIVE Exponent(_, _)
Exponent(a, from) == IF a < Pow2(MantBits + from) THEN from ELSE Exponent(a, from + 1)

FloatRound(x) ==
    LET a == Abs(x)
        u == Pow2(Exponent(a, 0))
        q == a \div u
        r == a % u
        m == IF 2 * r > u \/ (2 * r = u /\ q % 2 = 1) THEN q + 1 ELSE q
    IN  IF x < 0 THEN 0 - (m * u) ELSE m * u

\* x + y on floats
fadd(x, y) == FloatRound(x + y)

\* a JSON number / a value that is not a number
Flt(n) == [t |-> "float", n |-> n]
NoNumber == [t |-> "none", n |-> 0]

\* float(x) raises for None
FloatRaises(x) == x.t # "float"
PyFloat(x) == FloatRound(x.n)

----------------------------------------------------------------------------
(* Event ledger (performance_models.py) *)

\* the "" that stands for a missing timestamp
NoTime == 0 - 1

EVENT_TYPE_IMPORT == "import_base"
EVENT_TYPE_CONTRIBUTION == "contribution"
EVENT_TYPE_MANUAL_ADJUST == "manual_adjust"

empty_performance(at) == [base_score |-> Flt(0), events |-> <<>>, updated_at |-> at]

ensure_performance_reset(person, at) ==
    Update(person, [performance |-> empty_performance(at)])

\* ensure_performance(person), reading the clock as at.  A value of "events"
\* that is not a list takes the branch of the missing key (perf.get("events")
\* is then not a list either way) and is modelled by the missing key.
ensure_performance(person, at) ==
    IF "performance" \notin DOMAIN person \/ ~IsMapping(person.performance)
    THEN Update(person, [performance |-> empty_performance(at)])
    ELSE LET p0 == person.performance
             p1 == IF "base_score" \in DOMAIN p0 THEN p0 ELSE Update(p0, [base_score |-> Flt(0)])
             p2 == IF "events" \in DOMAIN p1 THEN p1 ELSE Update(p1, [events |-> <<>>])
             p3 == IF "updated_at" \in DOMAIN p2 THEN p2 ELSE Update(p2, [updated_at |-> at])
         IN  [person EXCEPT !.performance = p3]

\* sum(float(e.get("delta", 0)) for e in events): a left fold from 0
RECURSIVE SumDeltas(_, _)
SumDeltas(events, acc) ==
    IF events = <<>> THEN acc
    ELSE SumDeltas(Tail(events), fadd(acc, PyFloat(Get(Head(events), "delta", Flt(0)))))

DeltaRaises(events) == \E i \in DOMAIN events : FloatRaises(Get(events[i], "delta", Flt(0)))

Raised == [exc |-> TRUE]

compute_current_score_skip_last(p) ==
    LET events == Get(p, "events", <<>>)
        base == Get(p, "base_score", Flt(0))
        kept == IF events = <<>> THEN events ELSE SubSeq(events, 1, Len(events) - 1)
    IN  IF FloatRaises(base) \/ DeltaRaises(events) THEN Raised
        ELSE [exc |-> FALSE, val |-> fadd(PyFloat(base), SumDeltas(kept, 0))]

compute_current_score(p) ==
    LET events == Get(p, "events", <<>>)
        base == Get(p, "base_score", Flt(0))
    IN  IF FloatRaises(base) \/ DeltaRaises(events) THEN Raised
        ELSE [exc |-> FALSE, val |-> fadd(PyFloat(base), SumDeltas(events, 0))]

IsContribution(e) == Get(e, "type", None) = EVENT_TYPE_CONTRIBUTION

get_summary_unfiltered(p, group_id) ==
    LET events == Get(p, "events", <<>>)
        base == Get(p, "base_score", Flt(0))
        contrib == SelectSeq(events, IsContribution)
    IN  IF FloatRaises(base) \/ DeltaRaises(events) THEN Raised
        ELSE [exc |-> FALSE,
              base_score |-> PyFloat(base),
              current_score |-> fadd(PyFloat(base), SumDeltas(events, 0)),
              contribution_total |-> SumDeltas(contrib, 0),
              contribution_count |-> Len(contrib),
              event_count |-> Len(events),
              last_updated |-> Get(p, "updated_at", NoTime)]

get_summary(p, group_id) ==
    LET all == Get(p, "events", <<>>)
        InScope(e) == Get(e, "group_id", None) = group_id \/ Get(e, "group_id", None) = None
        events == IF IdTruthy(group_id) THEN SelectSeq(all, InScope) ELSE all
        base == Get(p, "base_score", Flt(0))
        contrib == SelectSeq(events, IsContribution)
    IN  IF FloatRaises(base) \/ DeltaRaises(events) THEN Raised
        ELSE [exc |-> FALSE,
              base_score |-> PyFloat(base),
              current_score |-> fadd(PyFloat(base), SumDeltas(events, 0)),
              contribution_total |-> SumDeltas(contrib, 0),
              contribution_count |-> Len(contrib),
              event_count |-> Len(events),
              last_updated |-> Get(p, "updated_at", NoTime)]

\* filter_events(perf, group_id, event_type): both filters test "is not None"
filter_events(p, group_id, event_type) ==
    LET all == Get(p, "events", <<>>)
        InScope(e) == Get(e, "group_id", None) = group_id \/ Get(e, "group_id", None) = None
        OfType(e) == Get(e, "type", None) = event_type
        scoped == IF group_id # None THEN SelectSeq(all, InScope) ELSE all
    IN  IF event_type # None THEN SelectSeq(scoped, OfType) ELSE scoped

\* build_event(event_type, delta, title, group_id=group_id) with a fresh id
build_event(id, event_type, delta, title, group_id) ==
    [id |-> id, type |-> event_type, delta |-> Flt(FloatRound(delta)),
     title |-> title, group_id |-> group_id]

----------------------------------------------------------------------------
(* Entity store (store_org.py): documents and persistence *)

SCHEMA_VERSION == 3

_create_empty_org_store(at) ==
    [schema_version |-> SCHEMA_VERSION,
     org |-> [id |-> "org_default", name |-> "datuandui", created_at |-> at, updated_at |-> at],
     groups |-> <<>>,
     people |-> <<>>]

NoFile == [kind |-> "absent"]

\* the file content after save_org_store(store) succeeded
save_org_store(store) ==
    [kind |-> "json", data |-> Update(store, [schema_version |-> SCHEMA_VERSION])]

\* the name _migrate_member_to_store gives a legacy member.  Ids have at most
\* four characters, so id[:4] is the id.
LegacyName(old_member, profile) ==
    IF profile.t # "dict" THEN Str(UnknownName)
    ELSE IF Get(profile.v, "xingming", Get(old_member, "name", Str(UnknownName)))
                = Str(NotMentioned)
    THEN Get(old_member, "name", Str(MemberPrefix \o <<old_member.id>>))
    ELSE Get(profile.v, "xingming", Get(old_member, "name", Str(UnknownName)))

\* the membership dict of _migrate_member_to_store
LegacyMembership(group_id, created, source, at) ==
    [group_id |-> group_id, joined_at |-> created, updated_at |-> at,
     fields |-> [source |-> source]]

LegacyPersonOf_one_id(old_member, group_id, at, profile, contact, created, source) ==
    [id |-> "m0",
     name |-> LegacyName(old_member, profile),
     phone |-> _normalize_phone(contact[1]),
     email |-> _normalize_email(contact[2]),
     dedup |-> _compute_dedup_key(contact[1], contact[2]),
     created_at |-> created,
     updated_at |-> at,
     profile |-> profile,
     sources |-> <<[type |-> source, imported_at |-> created]>>,
     memberships |-> <<LegacyMembership(group_id, created, source, at)>>]

\* the new_person dict of _migrate_member_to_store, contact being what
\* _extract_contact_from_profile returned for profile
LegacyPersonOf(old_member, group_id, at, profile, contact, created, source) ==
    [id |-> old_member.id,
     name |-> LegacyName(old_member, profile),
     phone |-> _normalize_phone(contact[1]),
     email |-> _normalize_email(contact[2]),
     dedup |-> _compute_dedup_key(contact[1], contact[2]),
     created_at |-> created,
     updated_at |-> at,
     profile |-> profile,
     sources |-> <<[type |-> source, imported_at |-> created]>>,
     memberships |-> <<LegacyMembership(group_id, created, source, at)>>]

LegacyPersonFrom(old_member, group_id, at, profile) ==
    LegacyPersonOf(old_member, group_id, at, profile, _extract_contact_from_profile(profile),
                   Get(old_member, "created_at", at), Get(old_member, "source", "unknown"))

\* the Person, with its one membership, that _migrate_member_to_store builds
\* for a legacy member.  Legacy members and teams carry their "id" (the uuid
\* default of a missing id is not drawn).
LegacyPerson(old_member, group_id, at) ==
    LegacyPersonFrom(old_member, group_id, at, Get(old_member, "profile", Dict(EmptyDict)))

\* the two branches of _migrate_member_to_store: i is the index of the Person
\* that holds the dedup key already, 0 for none
MergeLegacyPerson(store, new_person, i, at) ==
    IF i # 0
    THEN [store EXCEPT !.people[i] =
             [@ EXCEPT !.memberships =
                           IF Filter(@, LAMBDA m : m.group_id
                                                     = new_person.memberships[1].group_id)
                                  = <<>>
                           THEN Append(@, new_person.memberships[1]) ELSE @,
                       !.updated_at = at]]
    ELSE [store EXCEPT !.people = Append(@, new_person)]

FindLegacyPerson(store, new_person, at) ==
    MergeLegacyPerson(store, new_person,
                      IF new_person.dedup.key = <<>> THEN 0
                      ELSE FirstIndex(store.people,
                                      LAMBDA p : p.dedup.key = new_person.dedup.key),
                      at)

_migrate_member_to_store_no_dedup(store, old_member, group_id, at) ==
    MergeLegacyPerson(store, LegacyPerson(old_member, group_id, at), 0, at)

\* _migrate_member_to_store(store, old_member, group_id)
_migrate_member_to_store(store, old_member, group_id, at) ==
    FindLegacyPerson(store, LegacyPerson(old_member, group_id, at), at)

\* for old_member in members: _migrate_member_to_store(store, old_member, group_id)
RECURSIVE MigrateMembers(_, _, _, _)
MigrateMembers(store, members, group_id, at) ==
    IF members = <<>> THEN store
    ELSE MigrateMembers(_migrate_member_to_store(store, Head(members), group_id, at),
                        Tail(members), group_id, at)

\* for old_team in old_data: append the group, migrate its members
LegacyGroup(old_team, at) ==
    [id |-> old_team.id,
     name |-> Get(old_team, "name", "morenxiaozu"),
     description |-> "",
     tags |-> <<>>,
     created_at |-> Get(old_team, "created_at", at),
     updated_at |-> at]

RECURSIVE MigrateTeams(_, _, _)
MigrateTeams(store, teams, at) ==
    IF teams = <<>> THEN store
    ELSE MigrateTeams(MigrateMembers([store EXCEPT !.groups =
                                         Append(@, LegacyGroup(Head(teams), at))],
                                     Get(Head(teams), "members", <<>>), Head(teams).id, at),
                      Tail(teams), at)

DefaultGroup(at) ==
    [id |-> "default_group", name |-> "morenxiaozu", description |-> "congjiushujuqianyi",
     tags |-> <<>>, created_at |-> at, updated_at |-> at]

\* which of the two legacy layouts the first item of a list announces
IsTeamList(old_data) ==
    /\ ~IsMapping(old_data) /\ old_data.t = "list" /\ old_data.v # <<>>
    /\ IsMapping(old_data.v[1]) /\ "members" \in DOMAIN old_data.v[1]

IsMemberList(old_data) ==
    /\ ~IsMapping(old_data) /\ old_data.t = "list" /\ old_data.v # <<>>
    /\ IsMapping(old_data.v[1]) /\ "members" \notin DOMAIN old_data.v[1]
    /\ "profile" \in DOMAIN old_data.v[1]

\* _migrate_from_v1(old_data): anything that is not one of the two layouts
\* gives the empty store
_migrate_from_v1(old_data, at) ==
    IF IsTeamList(old_data) THEN MigrateTeams(_create_empty_org_store(at), old_data.v, at)
    ELSE IF IsMemberList(old_data)
    THEN MigrateMembers([_create_empty_org_store(at) EXCEPT
                             !.groups = Append(@, DefaultGroup(at))],
                        old_data.v, "default_group", at)
    ELSE _create_empty_org_store(at)

\* old_team.get / old_member.get on an item that is not a mapping raises
MigrationRaises(old_data) ==
    /\ IsTeamList(old_data) \/ IsMemberList(old_data)
    /\ \E i \in DOMAIN old_data.v : ~IsMapping(old_data.v[i])

\* _migrate_v2_to_v3(store): ensure_performance on every Person, stamp 3
_migrate_v2_to_v3(store, at) ==
    Update(IF "people" \in DOMAIN store
           THEN [store EXCEPT !.people = [i \in DOMAIN @ |-> ensure_performance(@[i], at)]]
           ELSE store,
           [schema_version |-> SCHEMA_VERSION])

HasVersion_never(data, version) == FALSE

\* data.get("_schema_version") == version on a parsed document
HasVersion(data, version) ==
    IsMapping(data) /\ "schema_version" \in DOMAIN data /\ data.schema_version = version

\* the document load_org_store migrates f to
Migrated(f, at) ==
    IF HasVersion(f.data, 2) THEN _migrate_v2_to_v3(f.data, at)
    ELSE _migrate_v2_to_v3(_migrate_from_v1(f.data, at), at)

\* whether load_org_store reaches one of its two save_org_store calls
Migrates(f) ==
    /\ f.kind = "json"
    /\ ~HasVersion(f.data, SCHEMA_VERSION)
    /\ HasVersion(f.data, 2) \/ ~MigrationRaises(f.data)

\* load_org_store(): the document it returns.  A file is absent, holds text
\* json.load rejects (kind "corrupt"), or holds a parsed document.
load_org_store(f, at) ==
    IF f.kind = "absent" THEN _create_empty_org_store(at)
    ELSE IF f.kind = "corrupt" THEN _create_empty_org_store(at)
    ELSE IF HasVersion(f.data, SCHEMA_VERSION) THEN f.data
    ELSE IF Migrates(f) THEN Migrated(f, at)
    ELSE _create_empty_org_store(at)

AfterLoad_not_saved(f, at) == f

AfterLoad_resets_corrupt(f, at) ==
    IF Migrates(f) THEN save_org_store(Migrated(f, at))
    ELSE IF f.kind = "corrupt" THEN save_org_store(_create_empty_org_store(at))
    ELSE f

AfterLoad_saves_backfill(f, at) ==
    IF f.kind = "json" /\ HasVersion(f.data, SCHEMA_VERSION)
    THEN save_org_store([f.data EXCEPT !.people =
                            [i \in DOMAIN @ |-> ensure_performance(@[i], at)]])
    ELSE f

\* load_org_store(): the file it leaves behind
AfterLoad(f, at) == IF Migrates(f) THEN save_org_store(Migrated(f, at)) ELSE f

\* what an operation did: the document it holds at its end, whether it called
\* save_org_store on it, and the value it returns (an id and/or a boolean)
Outcome(store, saves, id, flag) == [store |-> store, saves |-> saves, id |-> id, flag |-> flag]

----------------------------------------------------------------------------
(* Group operations *)

create_group(store, group_name, description, tags, uuid, at, ok) ==
    LET group == [id |-> uuid, name |-> group_name, description |-> description,
                  tags |-> tags, created_at |-> at, updated_at |-> at]
    IN  Outcome([store EXCEPT !.groups = Append(@, group)], TRUE, uuid, TRUE)

rename_group(store, group_id, new_name, at, ok) ==
    LET i == FirstIndex(store.groups, LAMBDA g : g.id = group_id)
    IN  IF i = 0 THEN Outcome(store, FALSE, None, FALSE)
        ELSE Outcome([store EXCEPT !.groups[i] = [@ EXCEPT !.name = new_name, !.updated_at = at]],
                     TRUE, None, ok)

delete_group_keep_memberships(store, group_id, ok) ==
    Outcome([store EXCEPT !.groups = Filter(@, LAMBDA g : g.id # group_id)], TRUE, None, ok)

delete_group(store, group_id, ok) ==
    LET people == [i \in DOMAIN store.people |->
                     [store.people[i] EXCEPT !.memberships =
                         Filter(@, LAMBDA m : m.group_id # group_id)]]
    IN  Outcome([store EXCEPT !.groups = Filter(@, LAMBDA g : g.id # group_id),
                              !.people = people],
                TRUE, None, ok)

----------------------------------------------------------------------------
(* Person operations *)

find_person_never(people, key) == 0

find_person_any_key(people, key) == FirstIndex(people, LAMBDA p : p.dedup.key = key)

\* the scan of upsert_person and find_person_by_dedup_key: the index of the
\* first Person whose dedup key is key, 0 for none or for an empty key
find_person(people, key) ==
    IF key = <<>> THEN 0 ELSE FirstIndex(people, LAMBDA p : p.dedup.key = key)

merge_profile_replace(old, new) == new

merge_profile_unfiltered(old, new) ==
    [k \in DOMAIN old \cup DOMAIN new |-> IF k \in DOMAIN new THEN new[k] ELSE old[k]]

\* for key, value in profile_data.items():
\*     if value and value != "not provided": existing["profile"][key] = value
merge_profile(old, new) ==
    LET written == {k \in DOMAIN new : Truthy(new[k]) /\ new[k] # Str(NotMentioned)}
    IN  [k \in DOMAIN old \cup written |-> IF k \in written THEN new[k] ELSE old[k]]

append_source_replace(sources, entry) == <<entry>>

\* existing_person.setdefault("sources", []).append(entry)
append_source(sources, entry) == Append(sources, entry)

merge_membership_append(memberships, membership, membership_fields, at) ==
    Append(memberships, membership)

merge_membership_prepend(memberships, membership, membership_fields, at) ==
    <<membership>> \o memberships

\* the membership branch of a merge: update the membership of that group, or
\* append the new one
merge_membership(memberships, membership, membership_fields, at) ==
    LET m == FirstIndex(memberships, LAMBDA ms : ms.group_id = membership.group_id)
        given == IF Truthy(membership_fields) THEN membership_fields.v ELSE EmptyDict
    IN  IF m # 0
        THEN [memberships EXCEPT ![m] = [@ EXCEPT !.updated_at = at,
                                                  !.fields = Update(@, given)]]
        ELSE Append(memberships, membership)

\* upsert_person(profile_data, source, group_id, membership_fields) on the
\* loaded document; uuid is the fresh person id, hex the random name suffix
upsert_person(store, profile_data, source, group_id, membership_fields, uuid, hex, at, ok) ==
    LET contact == _extract_contact_from_profile(profile_data)
        phone == contact[1]
        email == contact[2]
        dedup == _compute_dedup_key(phone, email)
        name0 == IF profile_data.t = "dict"
                 THEN Get(profile_data.v, "xingming", Str(UnknownName))
                 ELSE Str(UnknownName)
        name == IF name0 = Str(NotMentioned) THEN Str(MemberPrefix \o hex) ELSE name0
        i == find_person(store.people, dedup.key)
        membership == [group_id |-> group_id, joined_at |-> at, updated_at |-> at,
                       fields |-> IF Truthy(membership_fields) THEN membership_fields.v
                                  ELSE [source |-> source]]
    IN  IF i # 0
        THEN LET p0 == [store.people[i] EXCEPT !.updated_at = at]
                 p1 == IF profile_data.t = "dict" /\ p0.profile.t = "dict"
                       THEN [p0 EXCEPT !.profile = Dict(merge_profile(@.v, profile_data.v))]
                       ELSE p0
                 p2 == [p1 EXCEPT !.sources =
                            append_source(@, [type |-> source, imported_at |-> at])]
                 p3 == IF IdTruthy(group_id)
                       THEN [p2 EXCEPT !.memberships =
                                merge_membership(@, membership, membership_fields, at)]
                       ELSE p2
             IN  Outcome([store EXCEPT !.people[i] = p3], TRUE, p3.id, FALSE)
        ELSE LET new_person ==
                     [id |-> uuid,
                      name |-> name,
                      phone |-> _normalize_phone(phone),
                      email |-> _normalize_email(email),
                      dedup |-> dedup,
                      created_at |-> at,
                      updated_at |-> at,
                      profile |-> profile_data,
                      sources |-> <<[type |-> source, imported_at |-> at]>>,
                      memberships |-> IF IdTruthy(group_id) THEN <<membership>> ELSE <<>>,
                      performance |-> empty_performance(at)]
             IN  Outcome([store EXCEPT !.people = Append(@, new_person)], TRUE, uuid, TRUE)

delete_person_soft(store, person_id, ok) == Outcome(store, TRUE, None, ok)

\* delete_person(person_id) on the loaded document
delete_person(store, person_id, ok) ==
    Outcome([store EXCEPT !.people = Filter(@, LAMBDA p : p.id # person_id)], TRUE, None, ok)

PersonIndex(store, person_id) == FirstIndex(store.people, LAMBDA p : p.id = person_id)

add_person_to_group_always_saves(store, person_id, group_id, fields, at, ok) ==
    Outcome(store, TRUE, None, ok)

add_person_to_group(store, person_id, group_id, fields, at, ok) ==
    LET i == PersonIndex(store, person_id)
    IN  IF i = 0 THEN Outcome(store, FALSE, None, FALSE)
        ELSE LET ms == store.people[i].memberships
                 m == FirstIndex(ms, LAMBDA x : x.group_id = group_id)
                 given == IF Truthy(fields) THEN fields.v ELSE EmptyDict
             IN  IF m # 0
                 THEN Outcome([store EXCEPT !.people[i].memberships[m] =
                                  [@ EXCEPT !.updated_at = at, !.fields = Update(@, given)]],
                              TRUE, None, ok)
                 ELSE Outcome([store EXCEPT !.people[i].memberships =
                                  Append(@, [group_id |-> group_id, joined_at |-> at,
                                             updated_at |-> at, fields |-> given])],
                              TRUE, None, ok)

remove_person_from_group(store, person_id, group_id, ok) ==
    LET i == PersonIndex(store, person_id)
    IN  IF i = 0 THEN Outcome(store, FALSE, None, FALSE)
        ELSE Outcome([store EXCEPT !.people[i].memberships =
                         Filter(@, LAMBDA m : m.group_id # group_id)],
                     TRUE, None, ok)

update_membership_fields_replace(store, person_id, group_id, fields, at, ok) ==
    LET i == PersonIndex(store, person_id)
        m == IF i = 0 THEN 0
             ELSE FirstIndex(store.people[i].memberships, LAMBDA x : x.group_id = group_id)
    IN  IF m = 0 THEN Outcome(store, FALSE, None, FALSE)
        ELSE Outcome([store EXCEPT !.people[i].memberships[m] =
                         [@ EXCEPT !.updated_at = at, !.fields = fields.v]],
                     TRUE, None, ok)

update_membership_fields(store, person_id, group_id, fields, at, ok) ==
    LET HasIt(p) == p.id = person_id /\ \E k \in DOMAIN p.memberships :
                                            p.memberships[k].group_id = group_id
        i == FirstIndex(store.people, HasIt)
        m == IF i = 0 THEN 0
             ELSE FirstIndex(store.people[i].memberships, LAMBDA x : x.group_id = group_id)
    IN  IF i = 0 THEN Outcome(store, FALSE, None, FALSE)
        ELSE Outcome([store EXCEPT !.people[i].memberships[m] =
                         [@ EXCEPT !.updated_at = at, !.fields = Update(@, fields.v)]],
                     TRUE, None, ok)

----------------------------------------------------------------------------
(* Performance operations *)

set_person_base_score(store, person_id, base_score, at, ok) ==
    LET i == PersonIndex(store, person_id)
    IN  IF i = 0 THEN Outcome(store, FALSE, None, FALSE)
        ELSE LET p == ensure_performance(store.people[i], at)
             IN  Outcome([store EXCEPT !.people[i] =
                             [p EXCEPT !.performance.base_score = Flt(FloatRound(base_score)),
                                       !.performance.updated_at = at]],
                         TRUE, None, ok)

add_performance_event(store, person_id, event, at, ok) ==
    LET i == PersonIndex(store, person_id)
    IN  IF i = 0 THEN Outcome(store, FALSE, None, FALSE)
        ELSE LET p == ensure_performance(store.people[i], at)
             IN  Outcome([store EXCEPT !.people[i] =
                             [p EXCEPT !.performance.events = Append(@, event),
                                       !.performance.updated_at = at]],
                         TRUE, None, ok)

HasEvent(p, event_id) ==
    "performance" \in DOMAIN p /\ "events" \in DOMAIN p.performance
    /\ \E k \in DOMAIN p.performance.events : Get(p.performance.events[k], "id", None) = event_id

update_performance_event(store, person_id, event_id, patch, at, ok) ==
    LET i == FirstIndex(store.people, LAMBDA p : p.id = person_id /\ HasEvent(p, event_id))
    IN  IF i = 0 THEN Outcome(store, FALSE, None, FALSE)
        ELSE LET p == ensure_performance(store.people[i], at)
                 k == FirstIndex(p.performance.events, LAMBDA e : Get(e, "id", None) = event_id)
             IN  Outcome([store EXCEPT !.people[i] =
                             [p EXCEPT !.performance.events[k] = Update(@, patch),
                                       !.performance.updated_at = at]],
                         TRUE, None, ok)

delete_performance_event(store, person_id, event_id, at, ok) ==
    LET i == FirstIndex(store.people, LAMBDA p : p.id = person_id /\ HasEvent(p, event_id))
    IN  IF i = 0 THEN Outcome(store, FALSE, None, FALSE)
        ELSE LET p == ensure_performance(store.people[i], at)
             IN  Outcome([store EXCEPT !.people[i] =
                             [p EXCEPT !.performance.events =
                                           Filter(@, LAMBDA e : Get(e, "id", None) # event_id),
                                       !.performance.updated_at = at]],
                         TRUE, None, ok)

----------------------------------------------------------------------------
(* Inputs *)

\* uuid4() yields values never seen before; the n-th draw is Uuid[n]
Uuid == <<"u1", "u2", "u3", "u4", "u5", "u6", "u7", "u8">>
EventId == <<"e_u1", "e_u2", "e_u3", "e_u4", "e_u5", "e_u6", "e_u7", "e_u8">>
Hex == <<"a", "1", "f", "0">>

\* an id that names nothing in the store
Ghost == "ghost"

Profile(f) == Dict(f)

\* name and phone "1-3"
ProfileZhang == Profile([xingming |-> Str(<<"Z">>), dianhua |-> Str(<<"1", "-", "3">>)])
\* the same phone written "13" under another alias, a new field, no name
ProfileMobile == Profile([shouji |-> Str(<<" ", "1", "3">>), jiaoyu |-> Str(<<"M", "S">>),
                          xingming |-> Str(NotMentioned)])
\* another phone, an empty and a zero field
ProfileOther == Profile([dianhua |-> Str(<<"2", "4">>), jiaoyu |-> Str(<<>>),
                         nianxian |-> PyInt(<<"0">>)])
\* the first phone again, overwriting the name and blanking other fields
ProfileLater == Profile([dianhua |-> Str(<<"(", "1", ")", "3">>), xingming |-> Str(<<"L">>),
                         jiaoyu |-> Str(NotMentioned), nianxian |-> PyInt(<<"0">>),
                         youxiang |-> Str(<<"A", "@", "b">>)])

Sources == {"file_upload", "text_analysis"}

\* each import path with a profile it delivers
ImportCalls == {<<ProfileZhang, "file_upload">>, <<ProfileMobile, "text_analysis">>,
                <<ProfileOther, "file_upload">>}

GroupIds(doc) == {doc.groups[i].id : i \in DOMAIN doc.groups}
PersonIds(doc) == {doc.people[i].id : i \in DOMAIN doc.people}
EventIds(doc) ==
    UNION {{doc.people[i].performance.events[k].id :
               k \in DOMAIN doc.people[i].performance.events} : i \in DOMAIN doc.people}

\* the document a caller sees now
Doc == load_org_store(file, now)

PersonById(doc, id) == doc.people[PersonIndex(doc, id)]

----------------------------------------------------------------------------
(* Store operations as atomic steps: load, change, save *)

Commit(o, op) ==
    /\ file' = IF o.saves THEN save_org_store(o.store) ELSE AfterLoad(file, now)
    /\ ret' = [op |-> op, id |-> o.id, flag |-> o.flag, wrote |-> o.saves \/ Migrates(file)]

Idle == [op |-> "none", id |-> None, flag |-> FALSE, wrote |-> FALSE]

UpsertPerson(profile_data, source, group_id, membership_fields) ==
    LET o == upsert_person(Doc, profile_data, source, group_id, membership_fields,
                           Uuid[uuids + 1], Hex, now, TRUE)
        key == PhoneOf(profile_data)
    IN  /\ Commit(o, "upsert_person")
        /\ uuids' = IF o.flag THEN uuids + 1 ELSE uuids
        /\ returned' = IF key = <<>> THEN returned
                       ELSE [k \in DOMAIN returned \cup {key} |->
                                IF k = key THEN o.id ELSE returned[k]]
        /\ nUpserts' = [n \in DOMAIN nUpserts \cup {o.id} |->
                           IF n = o.id THEN Get(nUpserts, n, 0) + 1 ELSE nUpserts[n]]
        /\ UNCHANGED <<now, writers, perf, result>>

\* what the callers were told about a deleted Person is forgotten
Forget(history, person_id, IdOf(_, _)) ==
    [k \in {x \in DOMAIN history : IdOf(x, history[x]) # person_id} |-> history[k]]

DeletePerson(person_id) ==
    /\ Commit(delete_person(Doc, person_id, TRUE), "delete_person")
    /\ returned' = Forget(returned, person_id, LAMBDA k, v : v)
    /\ nUpserts' = Forget(nUpserts, person_id, LAMBDA k, v : k)
    /\ UNCHANGED <<uuids, now, writers, perf, result>>

CreateGroup(group_name) ==
    /\ Commit(create_group(Doc, group_name, "", <<>>, Uuid[uuids + 1], now, TRUE), "create_group")
    /\ uuids' = uuids + 1
    /\ UNCHANGED <<now, returned, nUpserts, writers, perf, result>>

RenameGroup(group_id, new_name) ==
    /\ Commit(rename_group(Doc, group_id, new_name, now, TRUE), "rename_group")
    /\ UNCHANGED <<uuids, now, returned, nUpserts, writers, perf, result>>

DeleteGroup(group_id) ==
    /\ Commit(delete_group(Doc, group_id, TRUE), "delete_group")
    /\ UNCHANGED <<uuids, now, returned, nUpserts, writers, perf, result>>

AddPersonToGroup(person_id, group_id, fields) ==
    /\ Commit(add_person_to_group(Doc, person_id, group_id, fields, now, TRUE),
              "add_person_to_group")
    /\ UNCHANGED <<uuids, now, returned, nUpserts, writers, perf, result>>

RemovePersonFromGroup(person_id, group_id) ==
    /\ Commit(remove_person_from_group(Doc, person_id, group_id, TRUE),
              "remove_person_from_group")
    /\ UNCHANGED <<uuids, now, returned, nUpserts, writers, perf, result>>

UpdateMembershipFields(person_id, group_id, fields) ==
    /\ Commit(update_membership_fields(Doc, person_id, group_id, fields, now, TRUE),
              "update_membership_fields")
    /\ UNCHANGED <<uuids, now, returned, nUpserts, writers, perf, result>>

SetPersonBaseScore(person_id, base_score) ==
    /\ Commit(set_person_base_score(Doc, person_id, base_score, now, TRUE),
              "set_person_base_score")
    /\ UNCHANGED <<uuids, now, returned, nUpserts, writers, perf, result>>

\* the caller builds the event with build_event and hands it over
AddPerformanceEvent(person_id, event_type, delta, group_id) ==
    LET event == build_event(EventId[uuids + 1], event_type, delta, "t", group_id)
        o == add_performance_event(Doc, person_id, event, now, TRUE)
    IN  /\ Commit(o, "add_performance_event")
        /\ uuids' = uuids + 1
        /\ UNCHANGED <<now, returned, nUpserts, writers, perf, result>>

UpdatePerformanceEvent(person_id, event_id, patch) ==
    /\ Commit(update_performance_event(Doc, person_id, event_id, patch, now, TRUE),
              "update_performance_event")
    /\ UNCHANGED <<uuids, now, returned, nUpserts, writers, perf, result>>

DeletePerformanceEvent(person_id, event_id) ==
    /\ Commit(delete_performance_event(Doc, person_id, event_id, now, TRUE),
              "delete_performance_event")
    /\ UNCHANGED <<uuids, now, returned, nUpserts, writers, perf, result>>

\* no concurrent writer is at work
NoWriters == <<>>
NoLedger == empty_performance(0)
NoResult == [fn |-> "none"]

Init ==
    /\ file = NoFile
    /\ uuids = 0
    /\ now = 0
    /\ ret = Idle
    /\ returned = <<>>
    /\ nUpserts = <<>>
    /\ writers = NoWriters
    /\ perf = NoLedger
    /\ result = NoResult

\* guards that keep a run finite: a new Person needs an unused uuid, a merge
\* and a new event need room in the list they append to
UpsertFits(profile_data, maxUuids) ==
    LET i == find_person(Doc.people, KeyOf(profile_data))
    IN  IF i = 0 THEN uuids < maxUuids ELSE Len(Doc.people[i].sources) < MaxSources

EventFits(person_id, maxUuids) ==
    /\ uuids < maxUuids
    /\ Len(PersonById(Doc, person_id).performance.events) < MaxEvents

----------------------------------------------------------------------------
(* Spec: every store operation, one at a time, from the empty store *)

Next ==
    \/ \E c \in ImportCalls, g \in GroupIds(Doc) \cup {None} :
           UpsertFits(c[1], MaxUuids) /\ UpsertPerson(c[1], c[2], g, PyNone)
    \/ \E id \in PersonIds(Doc) \cup {Ghost} : DeletePerson(id)
    \/ uuids < MaxUuids /\ Len(Doc.groups) < MaxGroups /\ CreateGroup("ga")
    \/ \E g \in GroupIds(Doc) : RenameGroup(g, "gb")
    \/ \E g \in GroupIds(Doc) : DeleteGroup(g)
    \/ \E id \in PersonIds(Doc), g \in GroupIds(Doc) :
           AddPersonToGroup(id, g, Dict([role |-> "lead"]))
    \/ \E id \in PersonIds(Doc), g \in GroupIds(Doc) : RemovePersonFromGroup(id, g)
    \/ \E id \in PersonIds(Doc), g \in GroupIds(Doc) :
           UpdateMembershipFields(id, g, Dict([role |-> "member"]))
    \/ \E id \in PersonIds(Doc) : SetPersonBaseScore(id, 5)
    \/ \E id \in PersonIds(Doc) :
           EventFits(id, MaxUuids) /\ AddPerformanceEvent(id, EVENT_TYPE_CONTRIBUTION, 2, None)
    \/ \E id \in PersonIds(Doc), e \in EventIds(Doc) :
           UpdatePerformanceEvent(id, e, [delta |-> Flt(1)])
    \/ \E id \in PersonIds(Doc), e \in EventIds(Doc) : DeletePerformanceEvent(id, e)

Spec == Init /\ [][Next]_vars

----------------------------------------------------------------------------
(* Properties of Spec *)

People == Doc.people

IsPrefix(s, t) == Len(s) <= Len(t) /\ SubSeq(t, 1, Len(s)) = s

\* C1: from the empty store, after any sequence of store operations run one
\* at a time, no two Persons of the persisted document have the same
\* non-empty dedup key.
OnePersonPerDedupKey ==
    \A i, j \in DOMAIN People :
        (i # j /\ People[i].dedup.key # <<>>) => People[i].dedup.key # People[j].dedup.key

\* two Persons with different keys, one of them the target of a second upsert
OnePersonPerDedupKeyWitness ==
    /\ Len(People) = 2
    /\ People[1].dedup.key # <<>> /\ People[2].dedup.key # <<>>
    /\ \E i \in DOMAIN People : Len(People[i].sources) = 2

\* C5: the sources list of a Person is append-only.  An upsert_person that
\* resolves to an existing Person appends exactly one entry, carrying the
\* source of the call; no operation changes the entries of a Person that is
\* still in the store; the list is as long as the number of upsert_person
\* calls that returned the Person.
SourcesAppendOnly ==
    /\ [](\A i \in DOMAIN People :
             /\ People[i].id \in DOMAIN nUpserts
             /\ Len(People[i].sources) = nUpserts[People[i].id])
    /\ [][/\ \A id \in PersonIds(Doc) \cap PersonIds(Doc') :
                 IsPrefix(PersonById(Doc, id).sources, PersonById(Doc', id).sources)
          /\ \A c \in ImportCalls, g \in GroupIds(Doc) \cup {None} :
                 (/\ ret'.op = "upsert_person" /\ ret'.id \in PersonIds(Doc)
                  /\ UpsertPerson(c[1], c[2], g, PyNone))
                     => /\ Len(PersonById(Doc', ret'.id).sources)
                            = Len(PersonById(Doc, ret'.id).sources) + 1
                        /\ PersonById(Doc', ret'.id).sources[
                               Len(PersonById(Doc', ret'.id).sources)].type = c[2]]_vars

\* a Person imported by one path and then by another, in that order, and
\* touched by a membership and a score operation afterwards
SourcesAppendOnlyWitness ==
    \E i \in DOMAIN People :
        /\ Len(People[i].sources) = 2
        /\ People[i].sources[1].type = "text_analysis"
        /\ People[i].sources[2].type = "file_upload"
        /\ nUpserts[People[i].id] = 2
        /\ People[i].performance.base_score = Flt(5)
        /\ ret.op = "set_person_base_score"

HasMembership(person, group_id) ==
    \E k \in DOMAIN person.memberships : person.memberships[k].group_id = group_id

MembershipOf(person, group_id) ==
    person.memberships[FirstIndex(person.memberships, LAMBDA m : m.group_id = group_id)]

\* C6: no Person holds two memberships with the same group_id, and an
\* add_person_to_group for a (person, group) that already has a membership
\* updates that membership instead of adding another.
OneMembershipPerGroup ==
    /\ [](\A i \in DOMAIN People : \A k, l \in DOMAIN People[i].memberships :
             k # l => People[i].memberships[k].group_id # People[i].memberships[l].group_id)
    /\ [][\A id \in PersonIds(Doc), g \in GroupIds(Doc) :
             (/\ ret'.op = "add_person_to_group"
              /\ HasMembership(PersonById(Doc, id), g)
              /\ AddPersonToGroup(id, g, Dict([role |-> "lead"])))
                 => /\ Len(PersonById(Doc', id).memberships) = Len(PersonById(Doc, id).memberships)
                    /\ MembershipOf(PersonById(Doc', id), g).fields.role = "lead"]_vars

\* add_person_to_group has acted on the membership that upsert_person made
OneMembershipPerGroupWitness ==
    /\ ret.op = "add_person_to_group" /\ ret.flag
    /\ \E i \in DOMAIN People :
           /\ Len(People[i].memberships) = 1
           /\ Len(People[i].sources) = 2
           /\ DOMAIN People[i].memberships[1].fields = {"source", "role"}

----------------------------------------------------------------------------
(* SpecImport: the import paths, upsert_person and delete_person *)

ImportProfiles == {ProfileZhang, ProfileMobile, ProfileLater, ProfileOther}

NextImport ==
    \/ \E p \in ImportProfiles, s \in Sources :
           UpsertFits(p, MaxUuids) /\ UpsertPerson(p, s, None, PyNone)
    \/ \E id \in PersonIds(Doc) : DeletePerson(id)

SpecImport == Init /\ [][NextImport]_vars

\* the step is a merge by upsert_person(profile_data, source)
IsMerge(profile_data, source) ==
    /\ ret'.op = "upsert_person" /\ ret'.flag = FALSE
    /\ UpsertPerson(profile_data, source, None, PyNone)

\* the profile mapping of the Person a merge returned, before and after
OldProfile == PersonById(Doc, ret'.id).profile.v
NewProfile == PersonById(Doc', ret'.id).profile.v

\* C2: once upsert_person has returned an id for a profile with a non-empty
\* normalized phone and no delete_person has removed that Person, every
\* upsert_person of a profile with the same normalized phone returns that id
\* with is_new = False and leaves the number of People as it was.
DedupConvergence ==
    [][\A p \in ImportProfiles, s \in Sources :
          (PhoneOf(p) \in DOMAIN returned /\ UpsertPerson(p, s, None, PyNone))
              => /\ ret'.id = returned[PhoneOf(p)]
                 /\ ret'.flag = FALSE
                 /\ Len(Doc'.people) = Len(Doc.people)]_vars

\* a Person imported twice, by two sources, the phone written in two ways
DedupConvergenceWitness ==
    /\ ret.op = "upsert_person" /\ ret.flag = FALSE
    /\ LET person == PersonById(Doc, ret.id)
       IN  /\ "dianhua" \in DOMAIN person.profile.v
           /\ person.profile.v.dianhua.v # person.phone
           /\ {person.sources[i].type : i \in DOMAIN person.sources} = Sources

\* C3: on a merge, every top-level profile key of the Person that the
\* incoming profile does not have is still there with the value it had.
MergeKeepsAbsentKeys ==
    [][\A p \in ImportProfiles, s \in Sources :
          IsMerge(p, s) =>
              \A k \in DOMAIN OldProfile \ DOMAIN p.v :
                  k \in DOMAIN NewProfile /\ NewProfile[k] = OldProfile[k]]_vars

\* a merged Person holds a key that the last incoming profile did not carry
MergeKeepsAbsentKeysWitness ==
    /\ ret.op = "upsert_person" /\ ret.flag = FALSE
    /\ LET person == PersonById(Doc, ret.id)
       IN  /\ "shouji" \in DOMAIN person.profile.v
           /\ Get(person.profile.v, "xingming", PyNone) = Str(<<"L">>)

\* a value is empty when Python takes it for false: None, "", 0, {}
IsEmpty(value) == ~Truthy(value)

----------------------------------------------------------------------------
(* SpecGroups: two groups, their members and the events tagged with them *)

NextGroups ==
    \/ \E name \in {"ga", "gb"} :
           uuids < MaxUuids + 2 /\ Len(Doc.groups) < MaxGroups + 1 /\ CreateGroup(name)
    \/ \E g \in GroupIds(Doc) :
           UpsertFits(ProfileZhang, MaxUuids + 2)
           /\ UpsertPerson(ProfileZhang, "file_upload", g, PyNone)
    \/ \E id \in PersonIds(Doc), g \in GroupIds(Doc) : AddPersonToGroup(id, g, PyNone)
    \/ \E id \in PersonIds(Doc), g \in GroupIds(Doc) :
           EventFits(id, MaxUuids + 2) /\ AddPerformanceEvent(id, EVENT_TYPE_CONTRIBUTION, 2, g)
    \/ \E g \in GroupIds(Doc) \cup {Ghost} : DeleteGroup(g)

SpecGroups == Init /\ [][NextGroups]_vars

\* C7: delete_group(g) removes group g and every membership whose group_id
\* is g; the People, each Person's profile, sources and ledger (events tagged
\* g included), the memberships in other groups, the other groups and the
\* organization stay as they were.
DeleteGroupFrame ==
    [][\A g \in GroupIds(Doc) \cup {Ghost} :
          (ret'.op = "delete_group" /\ DeleteGroup(g)) =>
              /\ Doc'.groups = SelectSeq(Doc.groups, LAMBDA x : x.id # g)
              /\ Doc'.org = Doc.org
              /\ DOMAIN Doc'.people = DOMAIN Doc.people
              /\ \A i \in DOMAIN Doc.people :
                     /\ \A field \in DOMAIN Doc.people[i] \ {"memberships"} :
                            Doc'.people[i][field] = Doc.people[i][field]
                     /\ Doc'.people[i].memberships =
                            SelectSeq(Doc.people[i].memberships, LAMBDA m : m.group_id # g)]_vars

\* one of two groups was deleted: a Person keeps the membership in the other
\* group and an event tagged with the deleted one
DeleteGroupFrameWitness ==
    /\ ret.op = "delete_group" /\ ret.flag
    /\ Len(Doc.groups) = 1
    /\ \E i \in DOMAIN People :
           /\ Len(People[i].memberships) = 1
           /\ People[i].memberships[1].group_id \in GroupIds(Doc)
           /\ \E k \in DOMAIN People[i].performance.events :
                  People[i].performance.events[k].group_id \notin GroupIds(Doc) \cup {None}

----------------------------------------------------------------------------
(* SpecLedger: the pure ledger functions on ledgers drawn from bounded sets *)

\* a delta that fills the whole mantissa: adding 1 to it rounds
BigDelta == Pow2(MantBits)

\* every event type with every scope; title and id are filled in by position
EventChoices ==
    {[type |-> EVENT_TYPE_CONTRIBUTION, delta |-> 1, group_id |-> None],
     [type |-> EVENT_TYPE_CONTRIBUTION, delta |-> 2, group_id |-> "g1"],
     [type |-> EVENT_TYPE_CONTRIBUTION, delta |-> BigDelta, group_id |-> "g2"],
     [type |-> EVENT_TYPE_MANUAL_ADJUST, delta |-> BigDelta, group_id |-> None],
     [type |-> EVENT_TYPE_MANUAL_ADJUST, delta |-> 1, group_id |-> "g1"],
     [type |-> EVENT_TYPE_MANUAL_ADJUST, delta |-> 2, group_id |-> "g2"]}

BaseScores == {0, 1}

EventLists == UNION {[1..n -> EventChoices] : n \in 0..MaxLedger}

LedgerOf(base, choices) ==
    [base_score |-> Flt(base),
     events |-> [i \in DOMAIN choices |->
                    build_event(EventId[i], choices[i].type, choices[i].delta, "t",
                                choices[i].group_id)],
     updated_at |-> 0]

InitLedger ==
    /\ perf \in {LedgerOf(b, c) : b \in BaseScores, c \in EventLists}
    /\ result = NoResult
    /\ file = NoFile
    /\ uuids = 0
    /\ now = 0
    /\ ret = Idle
    /\ returned = <<>>
    /\ nUpserts = <<>>
    /\ writers = NoWriters

ComputeCurrentScore ==
    /\ result' = [fn |-> "compute_current_score", group_id |-> None,
                  out |-> compute_current_score(perf)]
    /\ UNCHANGED <<file, uuids, now, ret, returned, nUpserts, writers, perf>>

GetSummary(group_id) ==
    /\ result' = [fn |-> "get_summary", group_id |-> group_id,
                  out |-> get_summary(perf, group_id)]
    /\ UNCHANGED <<file, uuids, now, ret, returned, nUpserts, writers, perf>>

\* the same events in another order
SwapEvents(i) ==
    /\ perf' = [perf EXCEPT !.events[i] = perf.events[i + 1], !.events[i + 1] = perf.events[i]]
    /\ result' = NoResult
    /\ UNCHANGED <<file, uuids, now, ret, returned, nUpserts, writers>>

NextLedger ==
    \/ ComputeCurrentScore
    \/ \E g \in {None, "g1", "g2"} : GetSummary(g)
    \/ \E i \in 1..(Len(perf.events) - 1) : SwapEvents(i)

SpecLedger == InitLedger /\ [][NextLedger]_vars

\* the float sum, in list order, of the deltas of the events at the
\* positions of picked that are <= n
RECURSIVE SumAt(_, _, _)
SumAt(events, n, picked) ==
    IF n = 0 THEN 0
    ELSE IF n \in picked THEN fadd(SumAt(events, n - 1, picked), events[n].delta.n)
    ELSE SumAt(events, n - 1, picked)

\* the sum of the same deltas as a real number
RECURSIVE ExactSum(_, _)
ExactSum(events, picked) ==
    IF picked = {} THEN 0
    ELSE LET n == CHOOSE n \in picked : TRUE
         IN  events[n].delta.n + ExactSum(events, picked \ {n})

\* C8: get_summary(ledger, G) is computed over exactly the events whose
\* group_id is G or null: event_count, contribution_count, contribution_total
\* and current_score (base_score plus their deltas, added in list order) use
\* that subset; with no group id they use all events.
SummaryScope ==
    result.fn = "get_summary" =>
        LET events == perf.events
            g == result.group_id
            scope == {i \in DOMAIN events : g = None \/ events[i].group_id \in {g, None}}
            contributions == {i \in scope : events[i].type = EVENT_TYPE_CONTRIBUTION}
        IN  /\ ~result.out.exc
            /\ result.out.event_count = Cardinality(scope)
            /\ result.out.contribution_count = Cardinality(contributions)
            /\ result.out.contribution_total = SumAt(events, Len(events), contributions)
            /\ result.out.current_score =
                   fadd(perf.base_score.n, SumAt(events, Len(events), scope))

\* a contribution tagged g1 counts 0 under g2, while the unscoped and the g1
\* summaries count it
SummaryScopeWitness ==
    /\ result.fn = "get_summary" /\ result.group_id = "g2"
    /\ Len(perf.events) = 3
    /\ \A i \in DOMAIN perf.events :
           perf.events[i].type = EVENT_TYPE_CONTRIBUTION /\ perf.events[i].group_id = "g1"
    /\ result.out.contribution_total = 0 /\ result.out.event_count = 0
    /\ get_summary(perf, None).contribution_total = 6
    /\ get_summary(perf, "g1").contribution_total = 6

Indices(events) == DOMAIN events

Reorderings(events) ==
    {[i \in DOMAIN events |-> events[q[i]]] :
        q \in {f \in [DOMAIN events -> DOMAIN events] : \A i, j \in DOMAIN events :
                                                          i # j => f[i] # f[j]}}

SameForEveryPermutation ==
    \A permuted \in Reorderings(perf.events) :
        compute_current_score([perf EXCEPT !.events = permuted]) = result.out

\* C9 as claimed: compute_current_score is base_score plus the deltas of all
\* events, and the same for every permutation of the events list.
ScoreFoldAnyOrder ==
    result.fn = "compute_current_score" =>
        /\ result.out.val = fadd(perf.base_score.n,
                                 SumAt(perf.events, Len(perf.events), Indices(perf.events)))
        /\ SameForEveryPermutation

\* no addition of base_score and deltas, in whatever order, has to round
NoRounding ==
    \A picked \in SUBSET Indices(perf.events) :
        /\ FloatRound(ExactSum(perf.events, picked)) = ExactSum(perf.events, picked)
        /\ FloatRound(perf.base_score.n + ExactSum(perf.events, picked))
               = perf.base_score.n + ExactSum(perf.events, picked)

\* C9 amended: compute_current_score is base_score plus the deltas of all
\* events added in list order in floating point; when no such addition
\* rounds, it is the exact sum and the same for every permutation.
ScoreFoldExactOrder ==
    result.fn = "compute_current_score" =>
        /\ result.out.val = fadd(perf.base_score.n,
                                 SumAt(perf.events, Len(perf.events), Indices(perf.events)))
        /\ NoRounding =>
               /\ result.out.val = perf.base_score.n
                                     + ExactSum(perf.events, Indices(perf.events))
               /\ SameForEveryPermutation

\* three events with different deltas whose sums are all exact
ScoreFoldExactOrderWitness ==
    /\ result.fn = "compute_current_score"
    /\ NoRounding
    /\ Len(perf.events) = 3
    /\ perf.events[1].delta # perf.events[2].delta
    /\ perf.base_score.n = 1
    /\ result.out.val = 5

----------------------------------------------------------------------------
(* SpecRace: two sessions run store operations at the same time.  An        *)
(* operation is two steps, load_org_store() and then the rest of the        *)
(* function on the loaded document, with save_org_store() and the return.   *)

Writers == {"w1", "w2"}

NoDoc == _create_empty_org_store(0)
NoOp == [name |-> "none", profile |-> PyNone, source |-> None, group_id |-> None,
         group_name |-> None]

UpsertInGroupOp(profile_data, source, group_id) ==
    [name |-> "upsert_person", profile |-> profile_data, source |-> source,
     group_id |-> group_id, group_name |-> None]
UpsertOp(profile_data, source) == UpsertInGroupOp(profile_data, source, None)
CreateGroupOp(group_name) ==
    [name |-> "create_group", profile |-> PyNone, source |-> None, group_id |-> None,
     group_name |-> group_name]

RaceOps == {UpsertOp(ProfileZhang, "file_upload"), UpsertOp(ProfileOther, "text_analysis"),
            CreateGroupOp("ga")}

InitRace ==
    /\ file = NoFile
    /\ uuids = 0
    /\ now = 0
    /\ ret = Idle
    /\ returned = <<>>
    /\ nUpserts = <<>>
    /\ writers = [w \in Writers |-> [pc |-> "idle", store |-> NoDoc, op |-> NoOp,
                                     id |-> None, flag |-> FALSE]]
    /\ perf = NoLedger
    /\ result = NoResult

snapshot_reread(w) == Doc

\* the document an operation works on: the one it loaded at its start
snapshot(w) == writers[w].store

\* store = load_org_store(), the first statement of every operation
BeginOp(w, op) ==
    /\ writers[w].pc = "idle"
    /\ writers' = [writers EXCEPT ![w] = [pc |-> "loaded", store |-> Doc, op |-> op,
                                          id |-> None, flag |-> FALSE]]
    /\ UNCHANGED <<file, uuids, now, ret, returned, nUpserts, perf, result>>

\* what the rest of the operation of w does to its document
OutcomeOf(w) ==
    LET op == writers[w].op
    IN  IF op.name = "upsert_person"
        THEN upsert_person(snapshot(w), op.profile, op.source, op.group_id, PyNone,
                           Uuid[uuids + 1], Hex, now, TRUE)
        ELSE create_group(snapshot(w), op.group_name, "", <<>>, Uuid[uuids + 1], now, TRUE)

\* the rest of the operation: change the loaded document, save it, return
FinishOp(w) ==
    LET o == OutcomeOf(w)
    IN  /\ writers[w].pc = "loaded"
        /\ uuids < MaxUuids + 1
        /\ \A i \in DOMAIN o.store.people : Len(o.store.people[i].sources) <= MaxSources
        /\ file' = IF o.saves THEN save_org_store(o.store) ELSE file
        /\ uuids' = IF o.flag THEN uuids + 1 ELSE uuids
        /\ writers' = [writers EXCEPT ![w] = [pc |-> "idle", store |-> NoDoc, op |-> @.op,
                                              id |-> o.id, flag |-> o.flag]]
        /\ UNCHANGED <<now, ret, returned, nUpserts, perf, result>>

NextRace ==
    \/ \E w \in Writers, op \in RaceOps : BeginOp(w, op)
    \/ \E w \in Writers : FinishOp(w)

SpecRace == InitRace /\ [][NextRace]_vars

AllIds(doc) == PersonIds(doc) \cup GroupIds(doc)

\* C10: store operations are not atomic with respect to each other.  The
\* save at the end of an operation replaces the whole document by the one the
\* operation loaded plus its own change: whatever other writers persisted
\* since that load (a Person whose id upsert_person already returned) is
\* gone, and the operation still returns its id as a success.
LastSaveWins ==
    [][\A w \in Writers :
          (writers[w].pc = "loaded" /\ writers'[w].pc = "idle") =>
              /\ AllIds(Doc') \subseteq AllIds(writers[w].store) \cup {writers'[w].id}
              /\ writers'[w].id # None
              /\ writers'[w].id \in AllIds(Doc')]_vars

\* load, load, save, save: both writers were handed the id of a new Person,
\* and the persisted store holds only one of the two
LastSaveWinsWitness ==
    /\ \A w \in Writers :
           writers[w].pc = "idle" /\ writers[w].op.name = "upsert_person" /\ writers[w].flag
    /\ writers["w1"].id # writers["w2"].id
    /\ writers["w1"].id \notin PersonIds(Doc)
    /\ PersonIds(Doc) = {writers["w2"].id}
    /\ uuids = 2

----------------------------------------------------------------------------
(* SpecLoad: a store whose file was left by an earlier release, by another   *)
(* program or by a crash.  Every operation starts with load_org_store.       *)

MaxNow == 2         \* readings of the clock in a run of SpecLoad

\* legacy members: Zhang, the same phone again under a second member, another
MemberZhang == [id |-> "m1", name |-> Str(<<"Z">>), profile |-> ProfileZhang,
                source |-> "file_upload", created_at |-> 0]
MemberMobile == [id |-> "m2", name |-> Str(<<"M">>), profile |-> ProfileMobile,
                 source |-> "text_analysis", created_at |-> 0]
MemberOther == [id |-> "m3", profile |-> ProfileOther, source |-> "file_upload"]

LegacyTeam(id, members) == [id |-> id, name |-> id, created_at |-> 0, members |-> members]

\* version 1: a list of teams, or the older flat list of members
V1Documents ==
    {List(<<LegacyTeam("t1", <<MemberZhang>>), LegacyTeam("t2", <<MemberOther>>)>>),
     List(<<LegacyTeam("t1", <<MemberZhang, MemberOther>>), LegacyTeam("t2", <<MemberMobile>>)>>),
     List(<<LegacyTeam("t1", <<MemberZhang, MemberMobile>>)>>),
     List(<<LegacyTeam("t2", <<MemberOther>>)>>),
     List(<<MemberZhang, MemberOther>>),
     List(<<MemberOther, MemberZhang, MemberMobile>>)}

\* a Person as upsert_person stores it at time 0, imported by file upload
StoredPerson(id, name, phone, profile, memberships, performance) ==
    [id |-> id, name |-> name, phone |-> phone, email |-> <<>>,
     dedup |-> [strategy |-> "phone_then_email",
                key |-> <<"p", "h", "o", "n", "e", ":">> \o phone],
     created_at |-> 0, updated_at |-> 0, profile |-> profile,
     sources |-> <<[type |-> "file_upload", imported_at |-> 0]>>,
     memberships |-> memberships, performance |-> performance]

\* a version 3 document as this release writes it: create_group, upsert_person
\* of Zhang into the group, upsert_person of another Person into no group,
\* set_person_base_score and add_performance_event for that Person
CurrentDocument ==
    [schema_version |-> SCHEMA_VERSION,
     org |-> [id |-> "org_default", name |-> "datuandui", created_at |-> 0, updated_at |-> 0],
     groups |-> <<[id |-> "g1", name |-> "ga", description |-> "", tags |-> <<>>,
                   created_at |-> 0, updated_at |-> 0]>>,
     people |-> <<StoredPerson("p1", Str(<<"Z">>), <<"1", "3">>, ProfileZhang,
                               <<[group_id |-> "g1", joined_at |-> 0, updated_at |-> 0,
                                  fields |-> [source |-> "file_upload"]]>>,
                               [base_score |-> Flt(0), events |-> <<>>, updated_at |-> 0]),
                  StoredPerson("p2", Str(<<"wei", "zhi">>), <<"2", "4">>, ProfileOther, <<>>,
                               [base_score |-> Flt(4),
                                events |-> <<[id |-> "e_p2", type |-> EVENT_TYPE_CONTRIBUTION,
                                              delta |-> Flt(2), title |-> "t",
                                              group_id |-> "g1"]>>,
                                updated_at |-> 0])>>]

WithoutKey(d, key) == [k \in DOMAIN d \ {key} |-> d[k]]

\* the ledger a version 2 document may hold for a Person: none, a value that
\* is not a mapping, a mapping with some or all of its keys
NoKey == [t |-> "missing"]
LegacyLedgers == {NoKey, PyNone, [base_score |-> Flt(5)],
                  [events |-> <<[id |-> "e_old", type |-> EVENT_TYPE_MANUAL_ADJUST,
                                 delta |-> Flt(1), title |-> "t", group_id |-> None]>>],
                  CurrentDocument.people[2].performance}

WithLedger(person, ledger) ==
    IF ledger = NoKey THEN WithoutKey(person, "performance")
    ELSE Update(person, [performance |-> ledger])

\* version 2: the current layout, the ledgers not yet guaranteed
V2Document(ledger) ==
    [CurrentDocument EXCEPT !.schema_version = 2,
                            !.people = <<WithoutKey(@[1], "performance"),
                                         WithLedger(@[2], ledger)>>]

V2Documents == {V2Document(ledger) : ledger \in LegacyLedgers}

\* parsed documents of no known schema: a mapping tagged with another version
\* or with none, an empty list, lists of something else
UnknownDocuments ==
    {Update(CurrentDocument, [schema_version |-> 4]),
     Update(CurrentDocument, [schema_version |-> 1]),
     WithoutKey(CurrentDocument, "schema_version"),
     List(<<>>),
     List(<<Str(<<"x">>)>>),
     List(<<[id |-> "m1", name |-> Str(<<"Z">>)]>>)}

\* a list that starts like a member list and goes on with something else
BrokenList == List(<<MemberZhang, Str(<<"x">>)>>)

JsonFile(data) == [kind |-> "json", data |-> data]
CorruptFile == [kind |-> "corrupt", text |-> "{"]

Files ==
    {JsonFile(d) : d \in V1Documents \cup V2Documents \cup UnknownDocuments
                         \cup {CurrentDocument, BrokenList}}
    \cup {CorruptFile, NoFile}

InitLoad ==
    /\ file \in Files
    /\ uuids = 0
    /\ now = 1
    /\ ret = Idle
    /\ returned = <<>>
    /\ nUpserts = <<>>
    /\ writers = NoWriters
    /\ perf = NoLedger
    /\ result = NoResult

\* a caller that only reads (load_people, load_groups, get_organization):
\* store = load_org_store()
LoadOrgStore ==
    /\ file' = AfterLoad(file, now)
    /\ ret' = [op |-> "load_org_store", id |-> None, flag |-> FALSE,
               wrote |-> Migrates(file), doc |-> load_org_store(file, now)]
    /\ UNCHANGED <<uuids, now, returned, nUpserts, writers, perf, result>>

\* time passes between two operations
Tick ==
    /\ now < MaxNow
    /\ now' = now + 1
    /\ UNCHANGED <<file, uuids, ret, returned, nUpserts, writers, perf, result>>

\* the membership operations called with the id of no Person
GhostMembershipOp ==
    \E g \in GroupIds(Doc) \cup {Ghost} :
        \/ AddPersonToGroup(Ghost, g, Dict([role |-> "lead"]))
        \/ RemovePersonFromGroup(Ghost, g)
        \/ UpdateMembershipFields(Ghost, g, Dict([role |-> "member"]))

\* the ledger operations called with the id of no Person
GhostLedgerOp ==
    \/ SetPersonBaseScore(Ghost, 5)
    \/ uuids = 0 /\ AddPerformanceEvent(Ghost, EVENT_TYPE_CONTRIBUTION, 2, None)
    \/ \E e \in EventIds(Doc) \cup {Ghost} :
           \/ UpdatePerformanceEvent(Ghost, e, [delta |-> Flt(1)])
           \/ DeletePerformanceEvent(Ghost, e)

NextLoad ==
    \/ LoadOrgStore
    \/ Tick
    \/ UpsertFits(ProfileMobile, 1) /\ UpsertPerson(ProfileMobile, "text_analysis", None, PyNone)
    \/ DeletePerson(Ghost)
    \/ RenameGroup(Ghost, "gb")
    \/ DeleteGroup(Ghost)
    \/ GhostMembershipOp
    \/ GhostLedgerOp

SpecLoad == InitLoad /\ [][NextLoad]_vars

----------------------------------------------------------------------------
(* Properties of SpecLoad *)

\* the _schema_version of a parsed document: its tag, 1 for an untagged list,
\* 0 for a mapping without a tag
VersionOf(data) == IF IsMapping(data) THEN Get(data, "schema_version", 0) ELSE 1

\* C11: for every persisted document, the _schema_version of the document
\* load_org_store returns, and of the document it leaves persisted, is at
\* least the version the persisted document had before the load; this
\* includes documents tagged with a version other than 2 or 3.
SchemaVersionNeverDecreases ==
    [][(file.kind = "json" /\ LoadOrgStore) =>
          /\ VersionOf(ret'.doc) >= VersionOf(file.data)
          /\ file'.kind = "json" /\ VersionOf(file'.data) >= VersionOf(file.data)]_vars


\* the legacy members of a version 1 document, each with the id of the group
\* its team becomes
MembersOf(data) ==
    IF IsTeamList(data)
    THEN UNION {{<<data.v[t].members[k], data.v[t].id>> : k \in DOMAIN data.v[t].members} :
                   t \in DOMAIN data.v}
    ELSE IF IsMemberList(data) THEN {<<data.v[k], "default_group">> : k \in DOMAIN data.v}
    ELSE {}

\* person holds the profile fields, the source and the team of a legacy member
Carries(person, member, group_id) ==
    /\ \A k \in DOMAIN member.profile.v :
           k \in DOMAIN person.profile.v /\ person.profile.v[k] = member.profile.v[k]
    /\ \/ \E s \in DOMAIN person.sources : person.sources[s].type = member.source
       \/ \E m \in DOMAIN person.memberships : person.memberships[m].fields.source = member.source
    /\ \E m \in DOMAIN person.memberships : person.memberships[m].group_id = group_id

\* a Person of a version 2 document is there after the load with all its
\* fields; of its ledger, the keys of a mapping
KeepsPerson(old, new) ==
    /\ \A k \in DOMAIN old \ {"performance"} : k \in DOMAIN new /\ new[k] = old[k]
    /\ ("performance" \in DOMAIN old /\ IsMapping(old.performance)) =>
           \A k \in DOMAIN old.performance : new.performance[k] = old.performance[k]

\* C12: loading an older-generation document never drops data.  After a v1
\* migration every legacy member's profile fields, source and team are on
\* some Person of the migrated document, also when several legacy members
\* share a dedup key; after a v2 migration every Person and Group of the v2
\* document is present with all its fields.
MigrationKeepsData ==
    [][(file.kind = "json" /\ LoadOrgStore /\ ret'.wrote) =>
          /\ \A mg \in MembersOf(file.data) :
                 \E i \in DOMAIN ret'.doc.people : Carries(ret'.doc.people[i], mg[1], mg[2])
          /\ HasVersion(file.data, 2) =>
                 /\ ret'.doc.groups = file.data.groups
                 /\ Len(ret'.doc.people) = Len(file.data.people)
                 /\ \A i \in DOMAIN file.data.people :
                        KeepsPerson(file.data.people[i], ret'.doc.people[i])]_vars


\* the dedup key the migration computes for a legacy member
LegacyKey(member) == LegacyPerson(member, None, 0).dedup.key

HasGroup(person, group_id) ==
    \E m \in DOMAIN person.memberships : person.memberships[m].group_id = group_id

\* C13: in the v1 to v2 migration, legacy members with the same non-empty
\* dedup key that sit in different legacy teams become one Person holding one
\* membership per such team; the migrated document has at most one Person per
\* non-empty dedup key and at most one membership per (person, group).
MigrationMergesByKey ==
    [][(file.kind = "json" /\ LoadOrgStore /\ ret'.wrote /\ MembersOf(file.data) # {}) =>
          LET people == ret'.doc.people
          IN  /\ \A i, j \in DOMAIN people :
                     (i # j /\ people[i].dedup.key # <<>>) =>
                         people[i].dedup.key # people[j].dedup.key
              /\ \A i \in DOMAIN people : \A m, n \in DOMAIN people[i].memberships :
                     m # n => people[i].memberships[m].group_id
                                  # people[i].memberships[n].group_id
              /\ \A mg \in MembersOf(file.data) :
                     LegacyKey(mg[1]) # <<>> =>
                         \E i \in DOMAIN people :
                             /\ people[i].dedup.key = LegacyKey(mg[1])
                             /\ HasGroup(people[i], mg[2])]_vars

\* two members with one phone in two teams were loaded: one Person holds the
\* key, with a membership in each team
MigrationMergesByKeyWitness ==
    /\ ret.op = "load_org_store" /\ ret.wrote
    /\ \E i \in DOMAIN ret.doc.people :
           /\ ret.doc.people[i].dedup.key = LegacyKey(MemberZhang)
           /\ LegacyKey(MemberMobile) = LegacyKey(MemberZhang)
           /\ HasGroup(ret.doc.people[i], "t1") /\ HasGroup(ret.doc.people[i], "t2")
           /\ Len(ret.doc.people[i].memberships) = 2


\* person.get("performance") is a mapping
HasLedger(person) == "performance" \in DOMAIN person /\ IsMapping(person.performance)

\* what the load of a version 2 document does to one Person
LedgerBackfilled(old, new, at) ==
    /\ DOMAIN new = DOMAIN old \cup {"performance"}
    /\ \A k \in DOMAIN old \ {"performance"} : new[k] = old[k]
    /\ IsMapping(new.performance)
    /\ {"base_score", "events", "updated_at"} \subseteq DOMAIN new.performance
    /\ ~HasLedger(old) => new.performance.base_score = Flt(0) /\ new.performance.events = <<>>
    /\ HasLedger(old) =>
           /\ \A k \in DOMAIN old.performance : new.performance[k] = old.performance[k]
           /\ "base_score" \notin DOMAIN old.performance => new.performance.base_score = Flt(0)
           /\ "events" \notin DOMAIN old.performance => new.performance.events = <<>>
    /\ ensure_performance(new, at) = new

\* C14: loading a version 2 document gives every Person a ledger and stamps
\* version 3.  A Person with no ledger or with one that is not a mapping gets
\* base_score 0 and no events, an existing base_score and an existing events
\* list are never changed, all groups, people and other fields are unchanged,
\* and applying ensure_performance a second time changes nothing.
V2LoadBackfillsLedgers ==
    [][(file.kind = "json" /\ IsMapping(file.data) /\ VersionOf(file.data) = 2
           /\ LoadOrgStore) =>
          LET old == file.data
              new == ret'.doc
          IN  /\ new.schema_version = SCHEMA_VERSION
              /\ file' = JsonFile(new)
              /\ DOMAIN new = DOMAIN old
              /\ \A k \in DOMAIN old \ {"schema_version", "people"} : new[k] = old[k]
              /\ Len(new.people) = Len(old.people)
              /\ \A i \in DOMAIN old.people :
                     LedgerBackfilled(old.people[i], new.people[i], now + 1)]_vars

\* a version 2 document was loaded: the Person without a ledger has the empty
\* one, the Person with only a base_score kept it and got an events list
V2LoadBackfillsLedgersWitness ==
    /\ ret.op = "load_org_store" /\ ret.wrote
    /\ file = JsonFile(ret.doc)
    /\ Len(ret.doc.people) = 2
    /\ ret.doc.people[1].performance = empty_performance(now)
    /\ ret.doc.people[2].performance.base_score = Flt(5)
    /\ ret.doc.people[2].performance.events = <<>>


\* C15: load_org_store on a persisted document already tagged version 3
\* returns that document unchanged and performs no write; loading it any
\* number of times yields equal documents and leaves the persisted content
\* equal to the original.
CurrentDocumentPassesThrough ==
    [][(file.kind = "json" /\ IsMapping(file.data) /\ VersionOf(file.data) = 3
           /\ LoadOrgStore) =>
          /\ ret'.doc = file.data
          /\ ~ret'.wrote
          /\ file' = file
          /\ load_org_store(file', now + 1) = ret'.doc]_vars

\* the version 3 document was loaded at a later time and is still what the
\* file holds
CurrentDocumentPassesThroughWitness ==
    /\ ret.op = "load_org_store" /\ ~ret.wrote
    /\ ret.doc = CurrentDocument
    /\ file = JsonFile(CurrentDocument)
    /\ now = MaxNow


CorruptFileGivesEmptyStore ==
    [][(file.kind = "corrupt" /\ LoadOrgStore) =>
          /\ ret'.doc = _create_empty_org_store(now)
          /\ ret'.doc.org.id = "org_default"
          /\ ret'.doc.groups = <<>> /\ ret'.doc.people = <<>>
          /\ ~ret'.wrote
          /\ file' = file]_vars

\* the unparseable file was loaded and is still there
CorruptFileGivesEmptyStoreWitness ==
    /\ ret.op = "load_org_store"
    /\ file = CorruptFile
    /\ ret.doc.people = <<>> /\ ret.doc.groups = <<>>


\* a parsed document of no recognisable schema: a mapping whose tag is
\* neither 2 nor 3 or is missing, an empty list, a list of something else
IsUnknownSchema(data) ==
    IF IsMapping(data) THEN VersionOf(data) \notin {2, 3}
    ELSE ~IsTeamList(data) /\ ~IsMemberList(data)

\* C18: when the persisted file parses but is not a recognisable schema,
\* load_org_store returns an empty store without raising and leaves the
\* persisted content unchanged.
UnknownSchemaLeftAlone ==
    [][(file.kind = "json" /\ IsUnknownSchema(file.data) /\ LoadOrgStore) =>
          /\ ret'.doc.groups = <<>> /\ ret'.doc.people = <<>>
          /\ file' = file]_vars


\* the names of the seven operations that look a Person up by id
PersonOps == {"add_person_to_group", "remove_person_from_group", "update_membership_fields",
              "set_person_base_score", "add_performance_event", "update_performance_event",
              "delete_performance_event"}

\* C19 as stated: add_person_to_group, remove_person_from_group,
\* update_membership_fields, set_person_base_score, add_performance_event,
\* update_performance_event and delete_performance_event, called with a
\* person id that is not in the store, return False and leave the persisted
\* document unchanged.
PersonNotFoundLeavesFile ==
    [][(Ghost \notin PersonIds(Doc) /\ (GhostMembershipOp \/ GhostLedgerOp)) =>
          ret'.flag = FALSE /\ file' = file]_vars

\* C19, amended: the seven operations, called with a person id that is not in
\* the store, return False and reach no save_org_store of their own: the file
\* is what the load at their start leaves, the very same file when it held a
\* version 3 document, was absent or could not be parsed, the migrated
\* document when it held an older generation.
PersonNotFoundIsFalse ==
    [][(Ghost \notin PersonIds(Doc) /\ (GhostMembershipOp \/ GhostLedgerOp)) =>
          /\ ret'.op \in PersonOps
          /\ ret'.flag = FALSE
          /\ ret'.wrote = Migrates(file)
          /\ file' = AfterLoad(file, now)
          /\ ~Migrates(file) => file' = file]_vars

\* a base score was set for an id of no Person of the version 3 document:
\* False came back and the file is the same
PersonNotFoundIsFalseWitness ==
    /\ ret.op = "set_person_base_score" /\ ~ret.flag /\ ~ret.wrote
    /\ file = JsonFile(CurrentDocument)
    /\ Ghost \notin PersonIds(Doc)

\* C20: delete_person called with an id of no Person, and delete_group and
\* rename_group called with an id of no Group, return False and leave the
\* persisted document unchanged (but for the rewrite the load at their start
\* makes of an older generation).
DeleteNotFoundIsFalse ==
    [][/\ (Ghost \notin PersonIds(Doc) /\ DeletePerson(Ghost)) =>
              ret'.flag = FALSE /\ file' = AfterLoad(file, now)
       /\ (Ghost \notin GroupIds(Doc) /\ DeleteGroup(Ghost)) =>
              ret'.flag = FALSE /\ file' = AfterLoad(file, now)
       /\ (Ghost \notin GroupIds(Doc) /\ RenameGroup(Ghost, "gb")) =>
              ret'.flag = FALSE /\ file' = AfterLoad(file, now)]_vars


----------------------------------------------------------------------------
(* SpecWrite: the write of save_org_store can fail.  open(path, "w") raises   *)
(* and the file is as it was, or the file was opened, which empties it, and   *)
(* json.dump raises at once or part of the way (an I/O error, a value json    *)
(* cannot serialise).  save_org_store catches all of it and returns False.    *)

Truncated == [kind |-> "corrupt", text |-> ""]

\* the file a failed save_org_store can leave where f was
FailedSave(f) == {f, Truncated, CorruptFile}

\* an operation whose save_org_store returned False: o is its Outcome computed
\* with ok = FALSE, left the file the failed write left
SaveFails(o, op, left) ==
    /\ o.saves
    /\ left \in FailedSave(file)
    /\ file' = left
    /\ ret' = [op |-> op, id |-> o.id, flag |-> o.flag, wrote |-> TRUE]
    /\ UNCHANGED <<now, returned, nUpserts, writers, perf, result>>

\* upsert_person drew a uuid if it built a new Person
UpsertPersonOutcomeFails(o, left) ==
    /\ SaveFails(o, "upsert_person", left)
    /\ uuids' = IF o.flag THEN uuids + 1 ELSE uuids

UpsertPersonFails(profile_data, source, group_id, left) ==
    UpsertPersonOutcomeFails(upsert_person(Doc, profile_data, source, group_id, PyNone,
                                           Uuid[uuids + 1], Hex, now, FALSE), left)

CreateGroupFails(group_name, left) ==
    /\ SaveFails(create_group(Doc, group_name, "", <<>>, Uuid[uuids + 1], now, FALSE),
                 "create_group", left)
    /\ uuids' = uuids + 1

RenameGroupFails(group_id, new_name, left) ==
    /\ SaveFails(rename_group(Doc, group_id, new_name, now, FALSE), "rename_group", left)
    /\ UNCHANGED uuids

DeletePersonFails(person_id, left) ==
    /\ SaveFails(delete_person(Doc, person_id, FALSE), "delete_person", left)
    /\ UNCHANGED uuids

SetPersonBaseScoreFails(person_id, base_score, left) ==
    /\ SaveFails(set_person_base_score(Doc, person_id, base_score, now, FALSE),
                 "set_person_base_score", left)
    /\ UNCHANGED uuids

\* some operation's write fails
FailedOp ==
    \E left \in FailedSave(file) :
        \/ \E c \in ImportCalls :
               UpsertFits(c[1], MaxUuids) /\ UpsertPersonFails(c[1], c[2], None, left)
        \/ uuids < MaxUuids /\ CreateGroupFails("ga", left)
        \/ \E g \in GroupIds(Doc) : RenameGroupFails(g, "gb", left)
        \/ \E id \in PersonIds(Doc) : DeletePersonFails(id, left)
        \/ \E id \in PersonIds(Doc) : SetPersonBaseScoreFails(id, 5, left)

NextWrite ==
    \/ \E c \in ImportCalls : UpsertFits(c[1], MaxUuids) /\ UpsertPerson(c[1], c[2], None, PyNone)
    \/ uuids < MaxUuids /\ Len(Doc.groups) < MaxGroups /\ CreateGroup("ga")
    \/ \E g \in GroupIds(Doc) : RenameGroup(g, "gb")
    \/ \E id \in PersonIds(Doc) : DeletePerson(id)
    \/ \E id \in PersonIds(Doc) : SetPersonBaseScore(id, 5)
    \/ FailedOp

SpecWrite == Init /\ [][NextWrite]_vars

----------------------------------------------------------------------------
(* Properties of SpecWrite *)

\* C21: whenever the document write fails, the mutating operation that
\* triggered it reports the failure to its caller: no operation, upsert_person
\* and create_group included, returns a success result (True, a new group id
\* or a person id) for a change that was not persisted.
WriteFailureReported ==
    [][FailedOp => (ret'.id = None /\ ret'.flag = FALSE)]_vars

\* C22: a failed save_org_store leaves the previously persisted document
\* intact: after the failed write the file holds the complete old document,
\* never an empty or partial one, and a load returns the old data.
FailedSaveKeepsDocument ==
    [][FailedOp => (file' = file /\ load_org_store(file', now') = load_org_store(file, now))]_vars


----------------------------------------------------------------------------
(* Properties of delete_person *)

\* C23: after delete_person(id) succeeds, get_person_by_id(id) returns None,
\* find_person_by_dedup_key with that Person's key returns None, and a later
\* upsert_person with the same contact info, which finds no Person holding
\* the key, creates a new Person (is_new = True) under a new id with an empty
\* ledger and a single source; groups and all other People are unchanged by
\* the delete.
DeleteIsHard ==
    [][/\ \A id \in PersonIds(Doc) :
              DeletePerson(id) =>
                  /\ ret'.flag
                  /\ PersonIds(Doc') = PersonIds(Doc) \ {id}
                  /\ find_person(Doc'.people, PersonById(Doc, id).dedup.key) = 0
                  /\ Doc'.groups = Doc.groups
                  /\ \A other \in PersonIds(Doc') : PersonById(Doc', other) = PersonById(Doc, other)
       /\ \A p \in ImportProfiles, s \in Sources :
              (find_person(Doc.people, KeyOf(p)) = 0 /\ UpsertPerson(p, s, None, PyNone)) =>
                  /\ ret'.flag
                  /\ ret'.id \notin PersonIds(Doc)
                  /\ Len(PersonById(Doc', ret'.id).sources) = 1
                  /\ PersonById(Doc', ret'.id).performance = empty_performance(now)]_vars

\* two People were imported and the first, who held the phone 13, was deleted:
\* nobody holds that key and the other Person is there
DeleteIsHardWitness ==
    /\ ret.op = "delete_person" /\ ret.flag
    /\ uuids = 2
    /\ PersonIds(Doc) = {Uuid[2]}
    /\ find_person(Doc.people, KeyOf(ProfileZhang)) = 0
    /\ find_person(Doc.people, KeyOf(ProfileOther)) # 0


----------------------------------------------------------------------------
(* SpecEvents: the ledger operations of the store, on a document that holds  *)
(* two People, one of them with an event, with the patches a caller can pass *)

\* update_performance_event(person_id, event_id, patch) takes any mapping as
\* patch: a new delta, a null delta, an "id"
Patches(doc) == {[delta |-> Flt(1)], [delta |-> PyNone]} \cup {[id |-> e] : e \in EventIds(doc)}

InitEvents ==
    /\ file = JsonFile(CurrentDocument)
    /\ uuids = 0
    /\ now = 1
    /\ ret = Idle
    /\ returned = <<>>
    /\ nUpserts = <<>>
    /\ writers = NoWriters
    /\ perf = NoLedger
    /\ result = NoResult

\* get_person_performance(person_id)
get_person_performance(store, person_id, at) ==
    IF PersonIndex(store, person_id) = 0 THEN empty_performance(at)
    ELSE ensure_performance(PersonById(store, person_id), at).performance

\* the ledger of a Person is fetched and handed to compute_current_score
PersonScore(person_id) ==
    /\ perf' = get_person_performance(Doc, person_id, now)
    /\ result' = [fn |-> "compute_current_score", group_id |-> None,
                  out |-> compute_current_score(perf')]
    /\ file' = AfterLoad(file, now)
    /\ UNCHANGED <<uuids, now, ret, returned, nUpserts, writers>>

\* the summary card: get_summary(get_person_performance(person_id), group_id)
PersonSummary(person_id, group_id) ==
    /\ perf' = get_person_performance(Doc, person_id, now)
    /\ result' = [fn |-> "get_summary", group_id |-> group_id,
                  out |-> get_summary(perf', group_id)]
    /\ file' = AfterLoad(file, now)
    /\ UNCHANGED <<uuids, now, ret, returned, nUpserts, writers>>

NextEvents ==
    \/ \E id \in PersonIds(Doc) :
           /\ uuids < MaxUuids - 1
           /\ Len(PersonById(Doc, id).performance.events) < MaxEvents + 1
           /\ AddPerformanceEvent(id, EVENT_TYPE_CONTRIBUTION, 2, None)
    \/ \E id \in PersonIds(Doc), e \in EventIds(Doc), patch \in Patches(Doc) :
           UpdatePerformanceEvent(id, e, patch)
    \/ \E id \in PersonIds(Doc), e \in EventIds(Doc) : DeletePerformanceEvent(id, e)
    \/ Tick

SpecEvents == InitEvents /\ [][NextEvents]_vars

\* SpecScores: the ledgers the store holds, patched and read back
NextScores ==
    \/ \E id \in PersonIds(Doc), e \in EventIds(Doc), patch \in Patches(Doc) :
           UpdatePerformanceEvent(id, e, patch)
    \/ \E id \in PersonIds(Doc) : SetPersonBaseScore(id, 5)
    \/ \E id \in PersonIds(Doc) : PersonScore(id)
    \/ \E id \in PersonIds(Doc), g \in GroupIds(Doc) \cup {None} : PersonSummary(id, g)

SpecScores == InitEvents /\ [][NextScores]_vars

\* C24: within each Person's ledger the event ids are pairwise distinct after
\* any sequence of add_performance_event, update_performance_event (with any
\* patch) and delete_performance_event calls.
EventIdsDistinct ==
    \A i \in DOMAIN Doc.people :
        \A k, l \in DOMAIN Doc.people[i].performance.events :
            k # l => Doc.people[i].performance.events[k].id
                         # Doc.people[i].performance.events[l].id


\* C26: compute_current_score and get_summary (and filter_events) return a
\* value without raising for every ledger that is a mapping, including a
\* ledger in which update_performance_event patched an event's delta to null.
LedgerFunctionsTotal ==
    result.fn \in {"compute_current_score", "get_summary"} => result.out.exc = FALSE


----------------------------------------------------------------------------
(* Properties of a Person's id and timestamps *)

\* the ids of the People in document order
IdSeq(doc) == [i \in DOMAIN doc.people |-> doc.people[i].id]

\* the ids of the People of a document are pairwise distinct
IdsUnique(doc) == \A i, j \in DOMAIN doc.people : i # j => doc.people[i].id # doc.people[j].id

\* C25: every Person's id is unique in the store and never changes after
\* creation, for Persons created by upsert_person and for Persons produced
\* by the v1 migration, which takes the id from the legacy member record: in
\* every step that leaves a version 3 document in the file, the ids of the
\* document are distinct and are those of before, in order, but for a Person
\* that is removed or one that is appended under an id nobody holds.
PersonIdsUniqueAndFixed ==
    [][(file'.kind = "json" /\ IsMapping(file'.data)
            /\ VersionOf(file'.data) = SCHEMA_VERSION) =>
          /\ IdsUnique(Doc)
          /\ IdsUnique(file'.data)
          /\ \/ IdSeq(file'.data) = IdSeq(Doc)
             \/ \E id \in PersonIds(Doc) :
                    IdSeq(file'.data) = SelectSeq(IdSeq(Doc), LAMBDA x : x # id)
             \/ /\ ret'.id \notin PersonIds(Doc)
                /\ IdSeq(file'.data) = Append(IdSeq(Doc), ret'.id)]_vars

\* a version 1 document was migrated and upsert_person then created another
\* Person: the legacy id and the new uuid
PersonIdsUniqueAndFixedWitness ==
    /\ ret.op = "upsert_person" /\ ret.flag
    /\ IdSeq(Doc) = <<"m3", Uuid[1]>>


----------------------------------------------------------------------------
(* SpecKey: _compute_dedup_key on phones and emails drawn from bounded sets *)

\* nothing, a placeholder, noise only, one number written in four ways,
\* another number
Phones == {PyNone, Str(<<>>), Str(NotMentioned), Str(<<" ", "-">>),
           Str(<<"1", "-", "3">>), Str(<<" ", "1", "3">>), Str(<<"(", "1", ")", "3">>),
           PyInt(<<"1", "3">>), Str(<<"2", "4">>)}

\* nothing, a placeholder, blanks only, one address written in two ways,
\* another address
Emails == {PyNone, Str(<<>>), Str(NotMentioned), Str(<<" ">>),
           Str(<<"A", "@", "b">>), Str(<<"a", "@", "b", " ">>), Str(<<"c", "@", "d">>)}

InitKey ==
    /\ perf \in [phone : Phones, email : Emails]
    /\ result = NoResult
    /\ file = NoFile
    /\ uuids = 0
    /\ now = 0
    /\ ret = Idle
    /\ returned = <<>>
    /\ nUpserts = <<>>
    /\ writers = NoWriters

ComputeDedupKey ==
    /\ result.fn = "none"
    /\ result' = [fn |-> "_compute_dedup_key", out |-> _compute_dedup_key(perf.phone, perf.email)]
    /\ UNCHANGED <<file, uuids, now, ret, returned, nUpserts, writers, perf>>

\* the caller goes on to the next pair
NextPair ==
    /\ result.fn # "none"
    /\ perf' \in [phone : Phones, email : Emails]
    /\ result' = NoResult
    /\ UNCHANGED <<file, uuids, now, ret, returned, nUpserts, writers>>

NextKey == ComputeDedupKey \/ NextPair

SpecKey == InitKey /\ [][NextKey]_vars

\* C27: _compute_dedup_key(phone, email) returns the key "phone:" followed by
\* the normalized phone whenever the normalized phone is non-empty, whatever
\* the email; "email:" followed by the normalized email when the normalized
\* phone is empty and the normalized email is not; "" exactly when both
\* normalize to empty.  The normalized phone has no blank, hyphen or bracket
\* and the normalized email no capital letter.
DedupKeyByPhoneThenEmail ==
    result.fn = "_compute_dedup_key" =>
        LET norm_phone == _normalize_phone(perf.phone)
            norm_email == _normalize_email(perf.email)
            key == result.out.key
        IN  /\ result.out.strategy = "phone_then_email"
            /\ norm_phone # <<>> => key = PhonePrefix \o norm_phone
            /\ (norm_phone = <<>> /\ norm_email # <<>>) => key = EmailPrefix \o norm_email
            /\ key = <<>> <=> (norm_phone = <<>> /\ norm_email = <<>>)
            /\ \A i \in DOMAIN norm_phone : norm_phone[i] \notin PhoneNoise
            /\ \A i \in DOMAIN norm_email : norm_email[i] \notin {"A", "B"}

\* a phone of noise only and an address in capitals: the key is the address
\* in lower case
DedupKeyByPhoneThenEmailWitness ==
    /\ result.fn = "_compute_dedup_key"
    /\ perf = [phone |-> Str(<<" ", "-">>), email |-> Str(<<"A", "@", "b">>)]
    /\ result.out.key = EmailPrefix \o <<"a", "@", "b">>


----------------------------------------------------------------------------
(* SpecNoKey: imports of profiles that give no dedup key *)

\* a name only; a phone that was "not provided" and a blank email; Zhang
ProfileNameOnly == Profile([xingming |-> Str(<<"Z">>)])
ProfileNoContact == Profile([xingming |-> Str(<<"Z">>), dianhua |-> Str(NotMentioned),
                             youxiang |-> Str(<<>>)])
NoKeyProfiles == {ProfileNameOnly, ProfileNoContact, ProfileZhang}

NextNoKey ==
    \/ \E p \in NoKeyProfiles, s \in Sources :
           UpsertFits(p, MaxUuids) /\ UpsertPerson(p, s, None, PyNone)
    \/ \E id \in PersonIds(Doc) : DeletePerson(id)

SpecNoKey == Init /\ [][NextNoKey]_vars

\* C28: upsert_person of a profile whose dedup key is empty always creates a
\* new Person (is_new = True) and never merges into an existing Person, also
\* when existing Persons have an empty key themselves: the People of before
\* are as they were and one is added; find_person_by_dedup_key("") returns
\* None whatever the store holds.
EmptyKeyAlwaysCreates ==
    [][/\ find_person(Doc.people, <<>>) = 0
       /\ find_person(Doc'.people, <<>>) = 0
       /\ \A p \in NoKeyProfiles, s \in Sources :
              (KeyOf(p) = <<>> /\ UpsertPerson(p, s, None, PyNone)) =>
                  /\ ret'.flag
                  /\ ret'.id \notin PersonIds(Doc)
                  /\ Len(Doc'.people) = Len(Doc.people) + 1
                  /\ \A i \in DOMAIN Doc.people : Doc'.people[i] = Doc.people[i]
                  /\ Doc'.people[Len(Doc'.people)].id = ret'.id]_vars

\* the same profile without contact was imported twice: two People, both
\* with the empty key
EmptyKeyAlwaysCreatesWitness ==
    /\ ret.op = "upsert_person" /\ ret.flag
    /\ Len(Doc.people) = 2
    /\ \A i \in DOMAIN Doc.people :
           Doc.people[i].dedup.key = <<>> /\ Doc.people[i].profile = ProfileNoContact


----------------------------------------------------------------------------
(* SpecContact: the contact extraction of the store on profiles drawn from  *)
(* a bounded set, with the missing-value test of profile_validation         *)

\* "", "not provided", "unknown", "none" in Chinese, none, null, n/a, na
MISSING_STRINGS == {<<>>, NotMentioned, UnknownName, <<"wu">>, <<"n", "o", "n", "e">>,
                    <<"n", "u", "l", "l">>, <<"n", "/", "a">>, <<"n", "a">>}

_is_missing_str(value) == Strip(value) = <<>> \/ Lower(Strip(value)) \in MISSING_STRINGS

is_missing(value) ==
    CASE value.t = "none" -> TRUE
      [] value.t = "str" -> _is_missing_str(value.v)
      [] value.t = "int" -> FALSE
      [] value.t = "dict" -> DOMAIN value.v = {}

\* the values a profile may hold under each key; a key may also be absent
ContactCells(k) ==
    CASE k = "dianhua" -> {PyNone, Str(<<>>), Str(NotMentioned), Str(UnknownName),
                           Str(<<"1", "-", "3">>)}
      [] k = "shouji" -> {Str(<<"2", "4">>)}
      [] k = "youxiang" -> {Str(<<"n", "/", "a">>), Str(<<"A", "@", "b">>)}
      [] k = "email" -> {Str(<<"c", "@", "d">>)}
      [] k = "lianxifangshi" -> {Dict([dianhua |-> Str(<<"5", "7">>),
                                       youxiang |-> Str(<<"e", "@", "f">>)])}

ContactKeys == {"dianhua", "shouji", "youxiang", "email", "lianxifangshi"}

ContactProfiles ==
    UNION {{Profile(f) : f \in {g \in [ks -> UNION {ContactCells(k) : k \in ks}] :
                                    \A k \in ks : g[k] \in ContactCells(k)}} :
           ks \in SUBSET ContactKeys}

InitContact ==
    /\ perf \in ContactProfiles
    /\ result = NoResult
    /\ file = NoFile
    /\ uuids = 0
    /\ now = 0
    /\ ret = Idle
    /\ returned = <<>>
    /\ nUpserts = <<>>
    /\ writers = NoWriters

\* what upsert_person does with the profile before it scans the store
ExtractContact ==
    /\ result.fn = "none"
    /\ result' = [fn |-> "_extract_contact_from_profile",
                  out |-> [contact |-> _extract_contact_from_profile(perf),
                           key |-> KeyOf(perf)]]
    /\ UNCHANGED <<file, uuids, now, ret, returned, nUpserts, writers, perf>>

\* the caller goes on to the next profile
NextProfile ==
    /\ result.fn # "none"
    /\ perf' \in ContactProfiles
    /\ result' = NoResult
    /\ UNCHANGED <<file, uuids, now, ret, returned, nUpserts, writers>>

NextContact == ExtractContact \/ NextProfile

SpecContact == InitContact /\ [][NextContact]_vars

\* the value of the first alias of keys whose value is not missing, then the
\* value under nested of the nested contact object, else the empty string
FirstNotMissing(d, keys, nested) ==
    LET i == FirstIndex(keys, LAMBDA k : k \in DOMAIN d /\ ~is_missing(d[k]))
        contact == Get(d, "lianxifangshi", Dict(EmptyDict))
    IN  IF i # 0 THEN d[keys[i]]
        ELSE IF contact.t = "dict" /\ nested \in DOMAIN contact.v
                  /\ ~is_missing(contact.v[nested])
             THEN contact.v[nested]
             ELSE Str(<<>>)

SameContact(got, want) ==
    IF is_missing(want) THEN is_missing(got) ELSE PyStr(got) = PyStr(want)

\* C29: the contact extraction of the store returns, for phone and for email,
\* the value of the first alias in the fixed order (then of the nested
\* contact object) whose value is not missing, where null, the empty string
\* and every placeholder token count as missing; so a placeholder under an
\* earlier alias never hides a real value under a later one, and no
\* placeholder becomes the dedup key.
ContactSkipsPlaceholders ==
    result.fn = "_extract_contact_from_profile" =>
        /\ SameContact(result.out.contact[1], FirstNotMissing(perf.v, phone_keys, "dianhua"))
        /\ SameContact(result.out.contact[2], FirstNotMissing(perf.v, email_keys, "youxiang"))
        /\ \A t \in MISSING_STRINGS :
               result.out.key \notin {PhonePrefix \o t, EmailPrefix \o t}


----------------------------------------------------------------------------
(* Timestamps of a Person *)

\* C30: every operation that changes a Person sets that Person's updated_at
\* to the time of the operation, and no operation changes a Person's
\* created_at: a Person that differs after a step carries the time of the
\* step as updated_at and the created_at it had.
PersonChangeStamped ==
    [][\A i \in DOMAIN Doc.people : \A j \in DOMAIN Doc'.people :
          (Doc'.people[j].id = Doc.people[i].id /\ Doc'.people[j] # Doc.people[i]) =>
              /\ Doc'.people[j].updated_at = now'
              /\ Doc'.people[j].created_at = Doc.people[i].created_at]_vars


----------------------------------------------------------------------------
(* SpecMembers: one Person, one group, and the three operations that write  *)
(* the fields of a membership, with a clock                                 *)

GivenFields == {Dict([role |-> "lead"]), Dict([source |-> "manual"])}

NextMembers ==
    \/ Doc.groups = <<>> /\ CreateGroup("ga")
    \/ \E g \in GroupIds(Doc), f \in GivenFields \cup {PyNone} :
           UpsertFits(ProfileZhang, MaxUuids) /\ UpsertPerson(ProfileZhang, "file_upload", g, f)
    \/ \E id \in PersonIds(Doc), g \in GroupIds(Doc), f \in GivenFields \cup {PyNone} :
           AddPersonToGroup(id, g, f)
    \/ \E id \in PersonIds(Doc), g \in GroupIds(Doc), f \in GivenFields :
           UpdateMembershipFields(id, g, f)
    \/ now < MaxNow - 1 /\ Tick

SpecMembers == Init /\ [][NextMembers]_vars

IsMemberOf(doc, id, g) ==
    \E k \in DOMAIN PersonById(doc, id).memberships :
        PersonById(doc, id).memberships[k].group_id = g

\* the first membership of Person id in group g
MembershipIn(doc, id, g) ==
    LET ms == PersonById(doc, id).memberships
    IN  ms[FirstIndex(ms, LAMBDA m : m.group_id = g)]

GivenOf(f) == IF f = PyNone THEN EmptyDict ELSE f.v

\* new is old with the given fields merged in and the same joined_at
MergedInto(old, new, given) ==
    /\ new.joined_at = old.joined_at
    /\ new.group_id = old.group_id
    /\ DOMAIN new.fields = DOMAIN old.fields \cup DOMAIN given
    /\ \A k \in DOMAIN new.fields :
           new.fields[k] = IF k \in DOMAIN given THEN given[k] ELSE old.fields[k]

\* C31: when upsert_person, add_person_to_group or update_membership_fields
\* is applied to a membership that already exists for that (person, group),
\* the given fields are merged into the membership's fields (given keys
\* overwritten, every other key kept with its value), the membership's
\* joined_at is unchanged and no membership is added.
MembershipFieldsMerge ==
    [][\A id \in PersonIds(Doc), g \in GroupIds(Doc), f \in GivenFields \cup {PyNone} :
          (/\ IsMemberOf(Doc, id, g)
           /\ \/ AddPersonToGroup(id, g, f)
              \/ f # PyNone /\ UpdateMembershipFields(id, g, f)
              \/ ret'.id = id /\ UpsertPerson(ProfileZhang, "file_upload", g, f)) =>
              /\ ret'.op = "upsert_person" \/ ret'.flag
              /\ Len(PersonById(Doc', id).memberships) = Len(PersonById(Doc, id).memberships)
              /\ MergedInto(MembershipIn(Doc, id, g), MembershipIn(Doc', id, g), GivenOf(f))]_vars

\* a membership made by an import at time 0 was given a role and, later,
\* another source: it holds the role, the last source, and the time it was
\* joined
MembershipFieldsMergeWitness ==
    /\ ret.op = "update_membership_fields" /\ ret.flag
    /\ \E id \in PersonIds(Doc), g \in GroupIds(Doc) :
           /\ IsMemberOf(Doc, id, g)
           /\ MembershipIn(Doc, id, g).fields = [source |-> "manual", role |-> "lead"]
           /\ MembershipIn(Doc, id, g).joined_at < MembershipIn(Doc, id, g).updated_at


----------------------------------------------------------------------------
(* SpecFilter: the summary and the event list of one ledger for one group,  *)
(* as the performance page asks for them                                    *)

\* no group, the empty string, a group with events, a group without
GroupArguments == {None, "", "g1", "g3"}

SummaryAndEvents(group_id) ==
    /\ result' = [fn |-> "filter_events", group_id |-> group_id,
                  summary |-> get_summary(perf, group_id),
                  events |-> filter_events(perf, group_id, None)]
    /\ UNCHANGED <<file, uuids, now, ret, returned, nUpserts, writers, perf>>

NextFilter == \E g \in GroupArguments : SummaryAndEvents(g)

SpecFilter == InitLedger /\ [][NextFilter]_vars

\* C32: get_summary and filter_events apply the same null-is-global group
\* filter: for every ledger and every group_id a caller can pass, the empty
\* string included, get_summary(ledger, group_id).event_count equals the
\* length of filter_events(ledger, group_id).
SummaryCountsFilteredEvents ==
    result.fn = "filter_events" => result.summary.event_count = Len(result.events)


----------------------------------------------------------------------------
(* SpecRefs: memberships asked for groups that exist and for one that does  *)
(* not                                                                      *)

NextRefs ==
    \/ \E name \in {"ga", "gb"} :
           uuids < MaxUuids /\ Len(Doc.groups) < MaxGroups /\ CreateGroup(name)
    \/ \E g \in GroupIds(Doc) \cup {Ghost}, s \in Sources :
           UpsertFits(ProfileZhang, MaxUuids) /\ UpsertPerson(ProfileZhang, s, g, PyNone)
    \/ \E id \in PersonIds(Doc), g \in GroupIds(Doc) \cup {Ghost} :
           AddPersonToGroup(id, g, PyNone)
    \/ \E g \in GroupIds(Doc) : DeleteGroup(g)

SpecRefs == Init /\ [][NextRefs]_vars

\* C33: after any sequence of store operations every membership's group_id
\* names a Group that exists in the store: add_person_to_group and
\* upsert_person given a group_id of no Group create no membership, and
\* delete_group leaves no membership of the deleted group.
MembershipsNameGroups ==
    \A i \in DOMAIN Doc.people : \A k \in DOMAIN Doc.people[i].memberships :
        Doc.people[i].memberships[k].group_id \in GroupIds(Doc)


----------------------------------------------------------------------------
(* SpecRaceMembers: two sessions import the same person into the same group *)
(* at the same time, in the two steps of SpecRace                           *)

MemberRaceOps == {UpsertInGroupOp(ProfileZhang, "file_upload", "g1"),
                  UpsertInGroupOp(ProfileMobile, "text_analysis", "g1")}

NextRaceMembers ==
    \/ \E w \in Writers, op \in MemberRaceOps : BeginOp(w, op)
    \/ \E w \in Writers : FinishOp(w)

SpecRaceMembers == InitRace /\ [][NextRaceMembers]_vars

\* C34: under any interleaving of the load and save steps of concurrent
\* store operations by several writers, every document ever persisted has at
\* most one Person per non-empty dedup key and at most one membership per
\* (person, group): a race can lose an update, it cannot duplicate.
RaceKeepsOnePerKey ==
    /\ \A i, j \in DOMAIN Doc.people :
           (i # j /\ Doc.people[i].dedup.key # <<>>) =>
               Doc.people[i].dedup.key # Doc.people[j].dedup.key
    /\ \A i \in DOMAIN Doc.people : \A k, l \in DOMAIN Doc.people[i].memberships :
           k # l => Doc.people[i].memberships[k].group_id
                        # Doc.people[i].memberships[l].group_id

\* load, load, save, save of the same person into the same group: both
\* writers were handed the id of a new Person; the persisted store holds one
\* Person of that key, with one membership
RaceKeepsOnePerKeyWitness ==
    /\ \A w \in Writers :
           writers[w].pc = "idle" /\ writers[w].op.name = "upsert_person" /\ writers[w].flag
    /\ KeyOf(writers["w1"].op.profile) = KeyOf(writers["w2"].op.profile)
    /\ writers["w1"].id # writers["w2"].id
    /\ Len(Doc.people) = 1
    /\ Len(Doc.people[1].memberships) = 1


----------------------------------------------------------------------------
(* SpecBulk: the bulk file import, one row of the table per step.  A row is *)
(* a profile with a parsed performance score; the import strategy is the    *)
(* one chosen on the page.                                                  *)

RowScores == {0, 1, 2}
Strategies == {"ignore", "new_only", "overwrite"}

\* the row writes its score: a new Person, or the overwrite strategy
RowWritesScore(o, strategy) ==
    o.id # None /\ strategy # "ignore" /\ (o.flag \/ strategy = "overwrite")

\* set_person_base_score and add_performance_event(build_import_event) on
\* the document the upsert o left
import_score(o, raw_score, event_id, at) ==
    LET based == set_person_base_score(o.store, o.id, raw_score, at, TRUE).store
    IN  add_performance_event(based, o.id,
                              build_event(event_id, EVENT_TYPE_IMPORT, raw_score, "t", None),
                              at, TRUE).store

ImportRowOutcome(o, raw_score, strategy) ==
    /\ file' = save_org_store(IF RowWritesScore(o, strategy)
                              THEN import_score(o, raw_score,
                                                EventId[uuids + 1 + (IF o.flag THEN 1 ELSE 0)], now)
                              ELSE o.store)
    /\ ret' = [op |-> "import_row", id |-> o.id, flag |-> o.flag, wrote |-> TRUE]
    /\ uuids' = uuids + (IF o.flag THEN 1 ELSE 0)
                      + (IF RowWritesScore(o, strategy) THEN 1 ELSE 0)
    /\ UNCHANGED <<now, returned, nUpserts, writers, perf, result>>

ImportRow(profile, raw_score, strategy, group_id) ==
    ImportRowOutcome(upsert_person(Doc, profile, "file_upload", group_id,
                                   Dict([source |-> "file_upload"]), Uuid[uuids + 1], Hex,
                                   now, TRUE),
                     raw_score, strategy)

\* the events of the Person the profile matches, none for a new Person
EarlierEvents(profile) ==
    LET i == find_person(Doc.people, KeyOf(profile))
    IN  IF i = 0 THEN <<>> ELSE Doc.people[i].performance.events

NextBulk ==
    \E p \in {ProfileZhang, ProfileOther}, s \in RowScores, strategy \in Strategies :
        /\ UpsertFits(p, MaxUuids + 2)
        /\ Len(EarlierEvents(p)) < MaxEvents + 1
        /\ ImportRow(p, s, strategy, "g1")

SpecBulk == Init /\ [][NextBulk]_vars

\* C35: after the bulk file import writes a parsed performance score S for a
\* Person who has no earlier events (a new Person, or an existing one under
\* the overwrite strategy), that Person's unscoped current score is S.
ImportedScoreIsCurrentScore ==
    [][\A p \in {ProfileZhang, ProfileOther}, s \in RowScores, strategy \in Strategies :
          (/\ ImportRow(p, s, strategy, "g1")
           /\ EarlierEvents(p) = <<>>
           /\ strategy # "ignore"
           /\ ret'.flag \/ strategy = "overwrite") =>
              compute_current_score(PersonById(Doc', ret'.id).performance)
                  = [exc |-> FALSE, val |-> s]]_vars


----------------------------------------------------------------------------
(* SpecIdentity: imports of a person known by email only, of a profile with *)
(* the same email and a phone, and of one phone under two names             *)

\* an address and no phone; the same address in another spelling and a phone
ProfileEmailOnly == Profile([xingming |-> Str(<<"E">>), youxiang |-> Str(<<"A", "@", "b">>)])
ProfileEmailPhone == Profile([xingming |-> Str(<<"F">>), youxiang |-> Str(<<"a", "@", "b">>),
                              dianhua |-> Str(<<"5", "7">>)])
IdentityProfiles == {ProfileEmailOnly, ProfileEmailPhone, ProfileZhang, ProfileLater}

NextIdentity ==
    \/ \E p \in IdentityProfiles :
           UpsertFits(p, MaxUuids) /\ UpsertPerson(p, "file_upload", None, PyNone)
    \/ now = 0 /\ Tick

SpecIdentity == Init /\ [][NextIdentity]_vars

IdentityOf(person) ==
    <<person.id, person.name, person.phone, person.email, person.dedup, person.created_at>>

EmailKey == EmailPrefix \o <<"a", "@", "b">>

\* C36: a merge by upsert_person never changes the matched Person's id,
\* name, phone, email, dedup key or created_at, whatever name or contact the
\* incoming profile carries; a Person created with an email and no phone
\* keeps the key of that email, and an upsert_person of a profile with that
\* email and a phone does not match it and creates a second Person with the
\* key of the phone.
MergeKeepsIdentity ==
    [][\A p \in IdentityProfiles :
          UpsertPerson(p, "file_upload", None, PyNone) =>
              /\ \A i \in DOMAIN Doc.people : IdentityOf(Doc'.people[i]) = IdentityOf(Doc.people[i])
              /\ ~ret'.flag => Len(Doc'.people) = Len(Doc.people)
              /\ (p = ProfileEmailPhone /\ find_person(Doc.people, KeyOf(p)) = 0) =>
                     /\ ret'.flag
                     /\ PersonById(Doc', ret'.id).dedup.key = PhonePrefix \o <<"5", "7">>
                     /\ PersonById(Doc', ret'.id).email = <<"a", "@", "b">>]_vars

\* the Person known by email met the profile with that email and a phone,
\* twice: it is as it was made at time 0, and a second Person holds the phone
MergeKeepsIdentityWitness ==
    /\ ret.op = "upsert_person" /\ ~ret.flag
    /\ now > 0
    /\ Len(Doc.people) = 2
    /\ Doc.people[1].dedup.key = EmailKey
    /\ Doc.people[1].name = Str(<<"E">>) /\ Doc.people[1].phone = <<>>
    /\ Doc.people[1].created_at = 0 /\ Len(Doc.people[1].sources) = 1
    /\ Doc.people[2].dedup.key = PhonePrefix \o <<"5", "7">>
    /\ Doc.people[2].email = <<"a", "@", "b">>
    /\ Len(Doc.people[2].sources) = 2


----------------------------------------------------------------------------
(* Frame of the event operations *)

\* s without its k-th element
WithoutAt(s, k) == SubSeq(s, 1, k - 1) \o SubSeq(s, k + 1, Len(s))

\* the People other than id are as they were, and so are the fields of
\* Person id other than the ledger, and the base_score of the ledger
OnlyEventsChange(id) ==
    /\ DOMAIN Doc'.people = DOMAIN Doc.people
    /\ \A i \in DOMAIN Doc.people :
           IF Doc.people[i].id # id THEN Doc'.people[i] = Doc.people[i]
           ELSE /\ \A f \in DOMAIN Doc.people[i] \ {"performance"} :
                       Doc'.people[i][f] = Doc.people[i][f]
                /\ Doc'.people[i].performance.base_score = Doc.people[i].performance.base_score
    /\ Doc'.groups = Doc.groups

\* C37: update_performance_event(person, event_id, patch) changes only the
\* fields named in patch of the event with that id, and
\* delete_performance_event(person, event_id) removes only the event with
\* that id; all other events, the base_score and all other People are
\* unchanged, and when no event of that Person has the id both return False
\* and write nothing.
EventOpsTouchOneEvent ==
    [][\A id \in PersonIds(Doc), e \in EventIds(Doc), patch \in Patches(Doc) :
          /\ UpdatePerformanceEvent(id, e, patch) =>
                 IF HasEvent(PersonById(Doc, id), e)
                 THEN /\ ret'.flag
                      /\ OnlyEventsChange(id)
                      /\ \E k \in DOMAIN PersonById(Doc, id).performance.events :
                             /\ PersonById(Doc, id).performance.events[k].id = e
                             /\ PersonById(Doc', id).performance.events =
                                    [PersonById(Doc, id).performance.events
                                         EXCEPT ![k] = Update(@, patch)]
                 ELSE ~ret'.flag /\ file' = file
          /\ DeletePerformanceEvent(id, e) =>
                 IF HasEvent(PersonById(Doc, id), e)
                 THEN /\ ret'.flag
                      /\ OnlyEventsChange(id)
                      /\ \E k \in DOMAIN PersonById(Doc, id).performance.events :
                             /\ PersonById(Doc, id).performance.events[k].id = e
                             /\ PersonById(Doc', id).performance.events =
                                    WithoutAt(PersonById(Doc, id).performance.events, k)
                 ELSE ~ret'.flag /\ file' = file]_vars


----------------------------------------------------------------------------
(* SpecReads: the read operations on a store that is at version 3 *)

\* as this release writes it; with a Person that has no ledger; without
\* People; without groups
V3Documents ==
    {CurrentDocument,
     [CurrentDocument EXCEPT !.people = <<WithoutKey(@[1], "performance"), @[2]>>],
     [CurrentDocument EXCEPT !.people = <<>>],
     [CurrentDocument EXCEPT !.groups = <<>>]}

InitReads ==
    /\ file \in {JsonFile(d) : d \in V3Documents}
    /\ uuids = 0
    /\ now = 1
    /\ ret = Idle
    /\ returned = <<>>
    /\ nUpserts = <<>>
    /\ writers = NoWriters
    /\ perf = NoLedger
    /\ result = NoResult

\* store = load_org_store(), then a value computed from store is returned
Read(fn, arg, out) ==
    /\ file' = AfterLoad(file, now)
    /\ result' = [fn |-> fn, arg |-> arg, out |-> out]
    /\ UNCHANGED <<uuids, now, ret, returned, nUpserts, writers, perf>>

\* the first element of s that passes Test, wrapped in a list, or nothing
FirstOf(s, Test(_)) ==
    IF SelectSeq(s, Test) = <<>> THEN <<>> ELSE <<Head(SelectSeq(s, Test))>>

LoadGroups == Read("load_groups", <<>>, Doc.groups)
LoadPeople == Read("load_people", <<>>, Doc.people)
GetGroupById(group_id) ==
    Read("get_group_by_id", group_id, FirstOf(Doc.groups, LAMBDA g : g.id = group_id))
GetPersonById(person_id) ==
    Read("get_person_by_id", person_id, FirstOf(Doc.people, LAMBDA p : p.id = person_id))
FindPersonByDedupKey(key) ==
    Read("find_person_by_dedup_key", key,
         IF find_person(Doc.people, key) = 0 THEN <<>>
         ELSE <<Doc.people[find_person(Doc.people, key)]>>)
GetPeopleInGroup(group_id) ==
    Read("get_people_in_group", group_id,
         SelectSeq(Doc.people, LAMBDA p : \E k \in DOMAIN p.memberships :
                                              p.memberships[k].group_id = group_id))
GetPersonPerformance(person_id) ==
    Read("get_person_performance", person_id,
         <<get_person_performance(Doc, person_id, now)>>)

ReadOperation ==
    \/ LoadGroups
    \/ LoadPeople
    \/ \E g \in GroupIds(Doc) \cup {Ghost} : GetGroupById(g)
    \/ \E id \in PersonIds(Doc) \cup {Ghost} : GetPersonById(id)
    \/ \E p \in {ProfileZhang, ProfileOther, ProfileNameOnly} : FindPersonByDedupKey(KeyOf(p))
    \/ \E g \in GroupIds(Doc) \cup {Ghost} : GetPeopleInGroup(g)
    \/ \E id \in PersonIds(Doc) \cup {Ghost} : GetPersonPerformance(id)

NextReads == ReadOperation \/ Tick

SpecReads == InitReads /\ [][NextReads]_vars

\* C38: on a store already at version 3 the read operations (load_groups,
\* load_people, get_group_by_id, get_person_by_id, find_person_by_dedup_key,
\* get_people_in_group, get_person_performance) never modify the persisted
\* document, also when get_person_performance backfills a missing ledger in
\* memory.
ReadsLeaveFile ==
    [][(HasVersion(file.data, SCHEMA_VERSION) /\ ReadOperation) => file' = file]_vars

\* the ledger of a Person that has none in the file was asked for at a later
\* time: the caller got a fresh ledger of that time, the file has none still
ReadsLeaveFileWitness ==
    /\ result.fn = "get_person_performance" /\ result.arg = "p1"
    /\ now = MaxNow
    /\ result.out = <<empty_performance(MaxNow)>>
    /\ "performance" \notin DOMAIN PersonById(file.data, "p1")


----------------------------------------------------------------------------
(* SpecSelf: the single-user page saves "my profile".  In this              *)
(* specification result holds the content of self_config.json               *)
(* (self_person_id) next to the last call and what it returned.             *)

\* a phone of noise only
ProfileDash == Profile([xingming |-> Str(<<"Z">>), dianhua |-> Str(<<"-">>)])
SelfProfiles == {ProfileZhang, ProfileMobile, ProfileDash, ProfileNoContact, ProfileNameOnly}

\* get_self_person_id()
SelfPersonId == IF "self_person_id" \in DOMAIN result THEN result.self_person_id ELSE None

\* if not phone or phone == "not provided": return None, False, error
SelfProfileRejected(profile_data) ==
    \/ ~Truthy(_extract_contact_from_profile(profile_data)[1])
    \/ _extract_contact_from_profile(profile_data)[1] = Str(NotMentioned)

SelfResult(profile_data, self_person_id, person_id, is_new, error) ==
    [fn |-> "save_self_profile", profile |-> profile_data, self_person_id |-> self_person_id,
     out |-> [person_id |-> person_id, is_new |-> is_new, error |-> error]]

\* upsert_person, then set_self_person_id(person_id)
SaveSelfProfileOutcome(o, profile_data) ==
    /\ Commit(o, "save_self_profile")
    /\ uuids' = IF o.flag THEN uuids + 1 ELSE uuids
    /\ result' = SelfResult(profile_data, o.id, o.id, o.flag, FALSE)
    /\ UNCHANGED <<now, returned, nUpserts, writers, perf>>

SaveSelfProfile(profile_data, source) ==
    IF SelfProfileRejected(profile_data)
    THEN /\ result' = SelfResult(profile_data, SelfPersonId, None, FALSE, TRUE)
         /\ UNCHANGED <<file, uuids, now, ret, returned, nUpserts, writers, perf>>
    ELSE SaveSelfProfileOutcome(upsert_person(Doc, profile_data, source, None, PyNone,
                                              Uuid[uuids + 1], Hex, now, TRUE),
                                profile_data)

NextSelf ==
    \E p \in SelfProfiles, s \in Sources :
        UpsertFits(p, MaxUuids + 1) /\ SaveSelfProfile(p, s)

SpecSelf == Init /\ [][NextSelf]_vars

\* C39: save_self_profile deduplicates by phone: a profile whose extracted
\* phone is empty or "not provided" is rejected with an error and writes
\* nothing to the store or to the self binding; for every profile it
\* accepts, saving the same profile again returns the same person_id with
\* is_new = False, does not increase the number of People, and leaves
\* self_person_id bound to that Person.
SelfProfileDedupByPhone ==
    [][\A p \in SelfProfiles, s \in Sources :
          SaveSelfProfile(p, s) =>
              IF SelfProfileRejected(p)
              THEN /\ result'.out.error /\ result'.out.person_id = None
                   /\ file' = file
                   /\ SelfPersonId' = SelfPersonId
              ELSE (result.fn = "save_self_profile" /\ result.profile = p
                        /\ ~result.out.error) =>
                       /\ result'.out.person_id = result.out.person_id
                       /\ ~result'.out.is_new
                       /\ Len(Doc'.people) = Len(Doc.people)
                       /\ SelfPersonId' = result.out.person_id]_vars

====
